---- MODULE Spec2Model ----
(***************************************************************************)
(* ksync: strategy-based kernel locks (src/src/mutex.rs) and one-time      *)
(* initializers (src/src/lazy.rs), modelled as state machines.             *)
(*                                                                         *)
(* Part I   Locked<T, M> / StackQueueLocked<T, M> and their guards, with   *)
(*          the lock strategy M and the build mode fixed per behaviour.    *)
(*          Specification: Spec.                                           *)
(* Part II  LazyLock<T, F> and OnceLock<T> used from parallel contexts.    *)
(*          Specification: SpecInit; with their teardown: SpecTeardown.    *)
(* Part III OnceCell<T>.  Specification of the sequential use of OnceCell  *)
(*          and OnceLock: SpecSeq.                                         *)
(*                                                                         *)
(* The native primitives (fast/guarded mutex, ERESOURCE, spin lock, queued *)
(* spin lock, pool allocator, IRQL) are the platform's; they are modelled  *)
(* by their documented contract at the call sites of the source.           *)
(***************************************************************************)
EXTENDS Integers, Sequences, FiniteSets, TLC

(***************************************************************************)
(* Bounds of the model.                                                    *)
(***************************************************************************)
\* number of parallel execution contexts
NumCtx == 2
\* number of lock()/increment/drop cycles each context may perform
MaxCycles == 2

Ctx == 1..NumCtx
NoCtx == 0

(***************************************************************************)
(* Privilege (interrupt request) levels.                                   *)
(***************************************************************************)
PASSIVE_LEVEL == 0
APC_LEVEL == 1
DISPATCH_LEVEL == 2
\* a level above DISPATCH_LEVEL (device interrupt levels)
DeviceLevel == DISPATCH_LEVEL + 1
Levels == PASSIVE_LEVEL..DeviceLevel

(***************************************************************************)
(* States of the concurrent one-time initializers.                         *)
(***************************************************************************)
UNINIT == 0
INITIALIZING == 1
INITIALIZED == 2

(***************************************************************************)
(* Lock strategies: the implementors of Mutex and QueuedMutex.             *)
(***************************************************************************)
MutexStrategies ==
    {"EmptyMutex", "FastMutex", "GuardedMutex", "ResourceMutex", "SpinMutex"}
QueuedStrategies == {"QueuedEmptyMutex", "QueuedSpinMutex"}
Strategies == MutexStrategies \cup QueuedStrategies
\* strategies whose new() allocates a backend block from the pool
AllocatingStrategies == Strategies \ {"EmptyMutex", "QueuedEmptyMutex"}

VARIABLES
    \* ---- Part I: Locked / StackQueueLocked ----
    strategy,     \* the type parameter M of the container
    debugBuild,   \* cfg(debug_assertions)
    phase,        \* "unborn" | "live" | "failed" | "dropped"
    newResult,    \* what new() returned: "none" | "Ok" | "Err" | "Panic"
    pool,         \* live pool allocations: subset of {"layout", "backend"}
    fatal,        \* "none" | "panic" | "bugcheck": the system has stopped
    owner,        \* context holding the native lock exclusively, or NoCtx
    sharedCount,  \* ERESOURCE: shared acquisitions held, per context
    queue,        \* queued spin lock: tickets in arrival order, head owns
    savedIrql,    \* SpinLockInner.irql / FAST_MUTEX.OldIrql
    handleIrql,   \* KLOCK_QUEUE_HANDLE.OldIrql of each context's ticket
    payload,      \* InnerData.data, a counter
    pc,           \* per context: "idle" | "acquiring" | "held" | "read" | "written"
    irql,         \* per context: current level (KeGetCurrentIrql)
    entryIrql,    \* per context: level read by the strategy's lock(), until the drop
    guard,        \* per context: "none" | "exclusive" | "shared"
    localv,       \* per context: payload value read through the guard
    cycles,       \* per context: completed lock/increment/drop cycles
    lastCall,     \* the call the last step made or completed: <<ctx, op, outcome>>
    \* ---- Part II: LazyLock / OnceLock ----
    lzState,      \* LazyLock.state
    lzData,       \* LazyLock.data: HoldsFn | MovedOut | Value(v)
    initRuns,     \* number of runs of the LazyLock's initializer function
    olState,      \* OnceLock.state
    olValue,      \* OnceLock.value: NoValueYet | Value(v)
    onceRuns,     \* number of closures run by OnceLock::init_once
    ipc,          \* per context: position inside the current call
    iop,          \* per context: the call in progress
    ival,         \* per context: value computed or passed, not yet stored
    lastRet,      \* what the last step returned: <<ctx, op, kind, value>>
    lzDrops,      \* runs of a destructor by LazyLock::drop
    olDrops,      \* runs of the payload's destructor by OnceLock::drop
    \* ---- Part III: OnceCell, LazyCell ----
    cell,         \* OnceCell.inner: Nothing | Value(v)
    lcState,      \* LazyCell.state: HoldsFn | Value(v) | Poisoned
    lcRuns,       \* number of runs of the LazyCell's initializer function
    \* ---- destruction of the container of Part I ----
    dropLog,      \* what Locked::drop has done so far, in order
    \* ---- memory ordering of LazyLock / OnceLock ----
    writer,        \* per structure: the context that wrote the payload, or NoCtx
    cellRuns,     \* runs of the functions handed to OnceCell::get_or_init
    \* ---- Timer ----
    timer,        \* "unborn", "live", "failed" (new returned Err) or "dropped"
    timerPool,    \* pool blocks allocated by Timer::new and not yet freed
    \* ---- thread::spawn and JoinHandle ----
    spawnResult,  \* "none", or what spawn returned: "Ok" or "Err"
    thread,       \* the system thread: "none", "created" or "exited"
    closure,      \* the Box<F>: "none", "boxed", "freed_by_spawn", "freed_by_thread"
    fRuns,        \* number of calls of the closure f
    boxFrees,     \* number of times the heap block of the closure was freed
    jhPhase,      \* the JoinHandle: "none", "live" or "dropped"
    handle,       \* JoinHandle.handle: NullHandle or ThreadHandle
    exit_status,  \* JoinHandle.exit_status: "None" or "Some"
    handleOpen,   \* the thread handle is open in the handle table
    closes,       \* number of ZwClose calls made on the thread handle
    joinRet       \* what the last join() returned: "none", "Ok" or "Err"

objVars ==
    <<timer, timerPool, spawnResult, thread, closure, fRuns, boxFrees, jhPhase,
      handle, exit_status, handleOpen, closes, joinRet>>

lockVars ==
    <<strategy, debugBuild, phase, newResult, pool, fatal, owner, sharedCount,
      queue, savedIrql, handleIrql, payload, pc, irql, entryIrql, guard,
      localv, cycles, lastCall>>

initVars ==
    <<lzState, lzData, initRuns, olState, olValue, onceRuns, ipc, iop, ival,
      lastRet, lzDrops, olDrops, cell, lcState, lcRuns, dropLog,
                writer, cellRuns, objVars>>

vars == <<lockVars, initVars>>

NoCall == <<NoCtx, "none", "none">>
\* contents of a data cell: the pending closure, a moved-out closure, no
\* value yet, or a value
HoldsFn == <<"f", 0>>
MovedOut == <<"moved", 0>>
NoValueYet == <<"uninit", 0>>
Value(v) == <<"value", v>>
Nothing == <<"none", 0>>
\* a cell whose content has been destroyed in place
Destroyed == <<"destroyed", 0>>
\* State::Poisoned of a LazyCell
Poisoned == <<"poisoned", 0>>
NoReturn == <<NoCtx, "none", "none", Nothing>>
\* the return <<op, kind, value>> of a call by context c
Returned(c, r) == <<c>> \o r

(***************************************************************************)
(* Privilege level gate.                                                   *)
(***************************************************************************)
\* a gate that accepts every level for every strategy
irql_ok_any(s, level) == TRUE

\* a gate with the threshold of the blocking strategies for every strategy
irql_ok_low(s, level) == level <= APC_LEVEL

\* Mutex::irql_ok (default), SpinMutex::irql_ok, QueuedMutex::irql_ok
\* (default), QueuedSpinMutex::irql_ok, as a function of the level that
\* KeGetCurrentIrql() returns.
irql_ok(s, level) ==
    CASE s \in {"SpinMutex", "QueuedSpinMutex"} -> TRUE
      [] s = "QueuedEmptyMutex" -> level <= DISPATCH_LEVEL
      [] OTHER -> level <= APC_LEVEL

\* every strategy taken to be shareable
shareable_any(s) == TRUE

\* Mutex::shareable: false by default, true for ResourceMutex
shareable(s) == s = "ResourceMutex"

(***************************************************************************)
(* Construction.                                                           *)
(***************************************************************************)
\* M::new(): the backend block is allocated and the result unwrapped with
\* expect(); ResourceMutex::new also panics when ExInitializeResourceLite
\* fails.  Yields "Ok" or "Panic".
MutexNew(s, backendOk, initOk) ==
    IF s \notin AllocatingStrategies THEN "Ok"
    ELSE IF ~backendOk THEN "Panic"
    ELSE IF s = "ResourceMutex" /\ ~initOk THEN "Panic"
    ELSE "Ok"

\* Locked::new / StackQueueLocked::new
LockedNew ==
    /\ UNCHANGED initVars
    /\ phase = "unborn"
    /\ fatal = "none"
    /\ \E layoutOk \in BOOLEAN, backendOk \in BOOLEAN, initOk \in BOOLEAN :
         IF ~layoutOk
         THEN /\ newResult' = "Err"
              /\ phase' = "failed"
              /\ UNCHANGED <<pool, fatal>>
         ELSE IF MutexNew(strategy, backendOk, initOk) = "Ok"
         THEN /\ newResult' = "Ok"
              /\ phase' = "live"
              /\ pool' = IF strategy \in AllocatingStrategies
                         THEN {"layout", "backend"} ELSE {"layout"}
              /\ UNCHANGED fatal
         ELSE /\ newResult' = "Panic"
              /\ phase' = "failed"
              /\ fatal' = "panic"
              /\ pool' = IF backendOk THEN {"layout", "backend"} ELSE {"layout"}
    /\ lastCall' = NoCall
    /\ UNCHANGED <<strategy, debugBuild, owner, sharedCount, queue, savedIrql,
                   handleIrql, payload, pc, irql, entryIrql, guard, localv,
                   cycles>>

(***************************************************************************)
(* Native acquire and release, per strategy.                               *)
(***************************************************************************)
\* an acquire that never waits for the current holder
NativeFreeNoWait(c) == TRUE

\* The native exclusive acquire of context c can complete.
NativeFree(c) ==
    CASE strategy \in {"EmptyMutex", "QueuedEmptyMutex"} -> TRUE
      [] strategy = "QueuedSpinMutex" -> queue # <<>> /\ Head(queue) = c
      [] strategy = "ResourceMutex" ->
            owner = NoCtx /\ \A d \in Ctx : sharedCount[d] = 0
      [] OTHER -> owner = NoCtx

\* Level at which the caller runs once the native exclusive acquire has been
\* entered: the spin locks' "raise" entry points raise to DISPATCH_LEVEL,
\* the "already elevated" entry points leave the level alone.
LevelOnEntry(s, level) ==
    IF s \in {"SpinMutex", "QueuedSpinMutex"} /\ level < DISPATCH_LEVEL
    THEN DISPATCH_LEVEL
    ELSE level

\* SpinMutex::unlock / QueuedSpinMutex::unlock: the level after release.
\* The level is read again at release time; below DISPATCH_LEVEL the saved
\* level is restored, otherwise the "from DPC level" release keeps the level.
LevelAfterSpinUnlock(current, saved) ==
    IF current >= DISPATCH_LEVEL THEN current ELSE saved

\* ExReleaseResourceLite by context c: releases the ownership the calling
\* thread has; a thread that owns nothing stops the system.
ExReleaseResourceLite(c) ==
    IF owner = c
    THEN /\ owner' = NoCtx
         /\ UNCHANGED <<sharedCount, fatal>>
    ELSE IF sharedCount[c] > 0
    THEN /\ sharedCount' = [sharedCount EXCEPT ![c] = @ - 1]
         /\ UNCHANGED <<owner, fatal>>
    ELSE /\ fatal' = "bugcheck"
         /\ UNCHANGED <<owner, sharedCount>>

(***************************************************************************)
(* Locked::lock / StackQueueLocked::lock.                                  *)
(***************************************************************************)
\* MutexGuard::new with EXCLUSIVE = true (mutex.lock()), and the
\* mutex.lock(handle) of StackQueueLocked::lock: the native acquire is
\* entered.  The spin locks read the level and take the matching entry
\* point; the queued spin lock enqueues the caller's ticket.
MutexGuardNew(c) ==
    /\ pc' = [pc EXCEPT ![c] = "acquiring"]
    /\ entryIrql' = [entryIrql EXCEPT ![c] = irql[c]]
    /\ irql' = [irql EXCEPT ![c] = LevelOnEntry(strategy, irql[c])]
    /\ IF strategy = "QueuedSpinMutex"
       THEN /\ queue' = Append(queue, c)
            /\ handleIrql' = [handleIrql EXCEPT ![c] = irql[c]]
       ELSE UNCHANGED <<queue, handleIrql>>
    /\ lastCall' = <<c, "lock", "entered">>

LockCall(c) ==
    /\ UNCHANGED initVars
    /\ phase = "live"
    /\ fatal = "none"
    /\ pc[c] = "idle"
    /\ cycles[c] < MaxCycles
    /\ IF ~irql_ok(strategy, irql[c])
       THEN /\ lastCall' = <<c, "lock", "Err">>
            /\ UNCHANGED <<pc, entryIrql, irql, queue, handleIrql>>
       ELSE MutexGuardNew(c)
    /\ UNCHANGED <<strategy, debugBuild, phase, newResult, pool, fatal, owner,
                   sharedCount, savedIrql, payload, guard, localv, cycles>>

\* The native exclusive acquire returns and the guard is handed out.
Acquire(c) ==
    /\ UNCHANGED initVars
    /\ fatal = "none"
    /\ pc[c] = "acquiring"
    /\ NativeFree(c)
    /\ pc' = [pc EXCEPT ![c] = "held"]
    /\ guard' = [guard EXCEPT ![c] = "exclusive"]
    /\ lastCall' = <<c, "lock", "Ok">>
    /\ owner' = IF strategy \in {"EmptyMutex", "QueuedEmptyMutex"}
                THEN owner ELSE c
    /\ CASE strategy = "FastMutex" ->
              \* ExAcquireFastMutex: runs at APC_LEVEL, old level in the mutex
              /\ savedIrql' = irql[c]
              /\ irql' = [irql EXCEPT ![c] = APC_LEVEL]
         [] strategy = "SpinMutex" ->
              \* inner.irql = KeAcquireSpinLockRaiseToDpc(..) on the raise path
              /\ savedIrql' = IF entryIrql[c] >= DISPATCH_LEVEL
                              THEN savedIrql ELSE entryIrql[c]
              /\ UNCHANGED irql
         [] OTHER -> UNCHANGED <<savedIrql, irql>>
    /\ UNCHANGED <<strategy, debugBuild, phase, newResult, pool, fatal,
                   sharedCount, queue, handleIrql, payload, entryIrql, localv,
                   cycles>>

(***************************************************************************)
(* Locked::lock_shared.                                                    *)
(***************************************************************************)
\* The guard of lock_shared is built as MutexGuard { locker: self }: no
\* call of MutexGuard::new, hence no native acquire.
SharedGuard(c) ==
    /\ pc' = [pc EXCEPT ![c] = "held"]
    /\ guard' = [guard EXCEPT ![c] = "shared"]
    /\ lastCall' = <<c, "lock_shared", "Ok">>
    /\ UNCHANGED <<sharedCount, fatal>>

LockSharedCall(c) ==
    /\ UNCHANGED initVars
    /\ phase = "live"
    /\ fatal = "none"
    /\ strategy \in MutexStrategies
    /\ pc[c] = "idle"
    /\ IF ~irql_ok(strategy, irql[c])
       THEN /\ lastCall' = <<c, "lock_shared", "Err">>
            /\ UNCHANGED <<pc, guard, sharedCount, fatal>>
       ELSE IF ~shareable(strategy)
       THEN IF debugBuild
            THEN /\ fatal' = "panic"
                 /\ lastCall' = <<c, "lock_shared", "Panic">>
                 /\ UNCHANGED <<pc, guard, sharedCount>>
            ELSE /\ lastCall' = <<c, "lock_shared", "Err">>
                 /\ UNCHANGED <<pc, guard, sharedCount, fatal>>
       ELSE SharedGuard(c)
    /\ UNCHANGED <<strategy, debugBuild, phase, newResult, pool, owner, queue,
                   savedIrql, handleIrql, payload, irql, entryIrql, localv,
                   cycles>>

(***************************************************************************)
(* Access through a guard.                                                 *)
(***************************************************************************)
\* MutexGuard::deref / InStackMutexGuard::deref: read the payload
ReadPayload(c) ==
    /\ UNCHANGED initVars
    /\ fatal = "none"
    /\ pc[c] = "held"
    /\ localv' = [localv EXCEPT ![c] = payload]
    /\ pc' = [pc EXCEPT ![c] = "read"]
    /\ lastCall' = NoCall
    /\ UNCHANGED <<strategy, debugBuild, phase, newResult, pool, fatal, owner,
                   sharedCount, queue, savedIrql, handleIrql, payload, irql,
                   entryIrql, guard, cycles>>

\* a mutable borrow granted through a guard of either mode
EXCLUSIVE_any(g) == TRUE

\* the const parameter EXCLUSIVE of the guard's type, tested by deref_mut
EXCLUSIVE(g) == g = "exclusive"

\* MutexGuard::deref_mut / InStackMutexGuard::deref_mut: *guard += 1
WritePayload(c) ==
    /\ UNCHANGED initVars
    /\ fatal = "none"
    /\ pc[c] = "read"
    /\ IF EXCLUSIVE(guard[c])
       THEN /\ payload' = localv[c] + 1
            /\ localv' = [localv EXCEPT ![c] = 0]
            /\ pc' = [pc EXCEPT ![c] = "written"]
            /\ lastCall' = <<c, "deref_mut", "Ok">>
            /\ UNCHANGED fatal
       ELSE /\ fatal' = "panic"
            /\ lastCall' = <<c, "deref_mut", "Panic">>
            /\ UNCHANGED <<payload, localv, pc>>
    /\ UNCHANGED <<strategy, debugBuild, phase, newResult, pool, owner,
                   sharedCount, queue, savedIrql, handleIrql, irql, entryIrql,
                   guard, cycles>>

\* Deref for Locked / Deref for StackQueueLocked: `**container` reads the
\* payload through a shared reference to the container, with no lock() call
\* and no guard.
LockedDeref(c) ==
    /\ UNCHANGED initVars
    /\ phase = "live"
    /\ fatal = "none"
    /\ pc[c] = "idle"
    /\ lastCall' = <<c, "deref", "Ok">>
    /\ UNCHANGED <<strategy, debugBuild, phase, newResult, pool, fatal, owner,
                   sharedCount, queue, savedIrql, handleIrql, payload, pc,
                   irql, entryIrql, guard, localv, cycles>>

(***************************************************************************)
(* Dropping a guard.                                                       *)
(***************************************************************************)
\* Mutex::unlock / QueuedMutex::unlock of the strategy, called by c
MutexUnlock(c) ==
    CASE strategy = "FastMutex" ->
           \* ExReleaseFastMutex restores the level saved in the mutex
           /\ owner' = NoCtx
           /\ irql' = [irql EXCEPT ![c] = savedIrql]
           /\ UNCHANGED <<sharedCount, queue, fatal>>
      [] strategy = "GuardedMutex" ->
           /\ owner' = NoCtx
           /\ UNCHANGED <<irql, sharedCount, queue, fatal>>
      [] strategy = "ResourceMutex" ->
           /\ ExReleaseResourceLite(c)
           /\ UNCHANGED <<irql, queue>>
      [] strategy = "SpinMutex" ->
           /\ owner' = NoCtx
           /\ irql' = [irql EXCEPT ![c] = LevelAfterSpinUnlock(irql[c], savedIrql)]
           /\ UNCHANGED <<sharedCount, queue, fatal>>
      [] strategy = "QueuedSpinMutex" ->
           /\ owner' = NoCtx
           /\ queue' = Tail(queue)
           /\ irql' = [irql EXCEPT ![c] = LevelAfterSpinUnlock(irql[c], handleIrql[c])]
           /\ UNCHANGED <<sharedCount, fatal>>
      [] OTHER -> UNCHANGED <<owner, irql, sharedCount, queue, fatal>>

\* Mutex::unlock_shared of the strategy, called by c (only ResourceMutex
\* overrides the default unimplemented!())
MutexUnlockShared(c) ==
    IF strategy = "ResourceMutex"
    THEN /\ ExReleaseResourceLite(c)
         /\ UNCHANGED <<irql, queue>>
    ELSE /\ fatal' = "panic"
         /\ UNCHANGED <<owner, irql, sharedCount, queue>>

\* MutexGuard::drop / InStackMutexGuard::drop; the locals of the cycle (the
\* level read by lock(), the ticket record) end with it.
DropGuard(c) ==
    /\ UNCHANGED initVars
    /\ fatal = "none"
    /\ \/ guard[c] = "exclusive" /\ pc[c] = "written"
       \/ guard[c] = "shared" /\ pc[c] \in {"held", "read"}
    /\ IF guard[c] = "exclusive"
       THEN /\ MutexUnlock(c)
            /\ cycles' = [cycles EXCEPT ![c] = @ + 1]
       ELSE /\ MutexUnlockShared(c)
            /\ UNCHANGED cycles
    /\ pc' = [pc EXCEPT ![c] = "idle"]
    /\ guard' = [guard EXCEPT ![c] = "none"]
    /\ localv' = [localv EXCEPT ![c] = 0]
    /\ entryIrql' = [entryIrql EXCEPT ![c] = PASSIVE_LEVEL]
    /\ handleIrql' = [handleIrql EXCEPT ![c] = PASSIVE_LEVEL]
    /\ lastCall' = <<c, "drop", guard[c]>>
    /\ UNCHANGED <<strategy, debugBuild, phase, newResult, pool, savedIrql,
                   payload>>

(***************************************************************************)
(* Dropping the container.                                                 *)
(***************************************************************************)
\* a strategy destructor that only frees the backend block
MutexDropFreeOnly(s) ==
    IF s \in AllocatingStrategies THEN <<"ExFreePoolWithTag(backend)">>
    ELSE <<>>

\* Drop of the strategy: the platform calls it makes, in order.  The null
\* strategies have no Drop; ResourceMutex deletes the resource before it
\* frees the block; the others free their block.
MutexDrop(s) ==
    IF s = "ResourceMutex"
    THEN <<"ExDeleteResourceLite", "ExFreePoolWithTag(backend)">>
    ELSE IF s \in AllocatingStrategies
    THEN <<"ExFreePoolWithTag(backend)">>
    ELSE <<>>

\* the pool after the calls of log
RECURSIVE PoolAfter(_, _)
PoolAfter(p, log) ==
    IF log = <<>> THEN p
    ELSE PoolAfter(CASE Head(log) = "ExFreePoolWithTag(backend)" ->
                          p \ {"backend"}
                     [] Head(log) = "ExFreePoolWithTag(layout)" ->
                          p \ {"layout"}
                     [] OTHER -> p,
                   Tail(log))

\* Drop for Locked / Drop for StackQueueLocked: drop_in_place of the
\* payload, drop_in_place of the strategy, release of the allocation.  The
\* container is owned by the caller: no guard borrows it and no call on it
\* is in progress.
LockedDrop ==
    /\ UNCHANGED <<lzState, lzData, initRuns, olState, olValue, onceRuns,
                   ipc, iop, ival, lastRet, lzDrops, olDrops, cell, lcState,
                   lcRuns, writer, cellRuns, objVars>>
    /\ phase = "live"
    /\ fatal = "none"
    /\ \A c \in Ctx : pc[c] = "idle" /\ guard[c] = "none"
    /\ dropLog' = dropLog \o <<"drop_in_place(data)">> \o MutexDrop(strategy)
                    \o <<"ExFreePoolWithTag(layout)">>
    /\ pool' = PoolAfter(pool, dropLog')
    /\ phase' = "dropped"
    /\ lastCall' = NoCall
    /\ UNCHANGED <<strategy, debugBuild, newResult, fatal, owner, sharedCount,
                   queue, savedIrql, handleIrql, payload, pc, irql, entryIrql,
                   guard, localv, cycles>>

(***************************************************************************)
(* Specification of Part I.                                                *)
(***************************************************************************)
LockInit ==
    /\ strategy \in Strategies
    /\ debugBuild \in BOOLEAN
    /\ phase = "unborn"
    /\ newResult = "none"
    /\ pool = {}
    /\ fatal = "none"
    /\ owner = NoCtx
    /\ sharedCount = [c \in Ctx |-> 0]
    /\ queue = <<>>
    /\ savedIrql = PASSIVE_LEVEL
    /\ handleIrql = [c \in Ctx |-> PASSIVE_LEVEL]
    /\ payload = 0
    /\ pc = [c \in Ctx |-> "idle"]
    \* contexts are interchangeable: their initial levels are drawn in
    \* nondecreasing order
    /\ irql \in {f \in [Ctx -> Levels] :
                   \A c \in Ctx, d \in Ctx : c < d => f[c] <= f[d]}
    /\ entryIrql = [c \in Ctx |-> PASSIVE_LEVEL]
    /\ guard = [c \in Ctx |-> "none"]
    /\ localv = [c \in Ctx |-> 0]
    /\ cycles = [c \in Ctx |-> 0]
    /\ lastCall = NoCall

\* the initializers as constructed, before any call
NullHandle == "null"
ThreadHandle == "h"

\* no Timer built and no thread spawned yet
ObjectsNew ==
    /\ timer = "unborn"
    /\ timerPool = {}
    /\ spawnResult = "none"
    /\ thread = "none"
    /\ closure = "none"
    /\ fRuns = 0
    /\ boxFrees = 0
    /\ jhPhase = "none"
    /\ handle = NullHandle
    /\ exit_status = "None"
    /\ handleOpen = FALSE
    /\ closes = 0
    /\ joinRet = "none"

InitializersNew ==
    /\ lzState = UNINIT
    /\ lzData = HoldsFn
    /\ initRuns = 0
    /\ olState = UNINIT
    /\ olValue = NoValueYet
    /\ onceRuns = 0
    /\ ipc = [c \in Ctx |-> "idle"]
    /\ iop = [c \in Ctx |-> "none"]
    /\ ival = [c \in Ctx |-> 0]
    /\ lastRet = NoReturn
    /\ lzDrops = 0
    /\ olDrops = 0
    /\ cell = Nothing
    /\ lcState = HoldsFn
    /\ lcRuns = 0
    /\ dropLog = <<>>
    /\ writer = [x \in {"lazy", "once"} |-> NoCtx]
    /\ cellRuns = 0
    /\ ObjectsNew

Init == LockInit /\ InitializersNew

LockNext ==
    \/ LockedNew
    \/ \E c \in Ctx : LockCall(c)
    \/ \E c \in Ctx : Acquire(c)
    \/ \E c \in Ctx : LockSharedCall(c)
    \/ \E c \in Ctx : ReadPayload(c)
    \/ \E c \in Ctx : WritePayload(c)
    \/ \E c \in Ctx : LockedDeref(c)
    \/ \E c \in Ctx : DropGuard(c)

Next == LockNext

Spec == Init /\ [][Next]_vars

(***************************************************************************)
(* Part II: LazyLock<T, F> and OnceLock<T>.                                *)
(*                                                                         *)
(* Each atomic access of `state` and each access of the data cell is one   *)
(* step.  A busy-wait iteration that finds the state unchanged changes     *)
(* nothing and is a stuttering step.                                       *)
(***************************************************************************)
\* the value the n-th run of the LazyLock's initializer function yields (the
\* function increments a global counter and returns it)
InitValue(n) == n
\* the value context c passes to OnceLock::set
SetArg(c) == 10 + c
\* the value the closure that context c passes to get_or_init yields
InitFn(c) == 20 + c

\* a compare-exchange that does not compare
compare_exchange_blind(current, expected) == TRUE

\* AtomicU32::compare_exchange(expected, new, ..): does it succeed
compare_exchange(current, expected) == current = expected

\* a wait that ends as soon as some context has started the initialization
WaitDoneEarly(state) == state # UNINIT

\* a wait loop that compares the state with the wrong constant
WaitDoneOnUninit(state) == state = UNINIT

\* exit test of the loops of LazyLock::wait and OnceLock::wait
WaitDone(state) == state = INITIALIZED

\* the calls on a LazyLock or OnceLock touch no lock, run no destructor and
\* leave the OnceCell alone
initFrame ==
    UNCHANGED <<lockVars, lzDrops, olDrops, cell, lcState, lcRuns, dropLog,
                writer, cellRuns, objVars>>

\* ---------------------------- LazyLock -----------------------------------
\* a force() that never takes the arm of the initialized state
FastPathNever(state) == FALSE

\* LazyLock::force: the arm `INITIALIZED => &value` of the match on the state
FastPath(state) == state = INITIALIZED

\* LazyLock::force (and Deref): load the state and dispatch on it.  The
\* return of the INITIALIZED arm is marked "fast": it is made by force()
\* itself, not by really_init or force_wait.
LazyForce(c) ==
    /\ ipc[c] = "idle"
    /\ CASE FastPath(lzState) ->
              /\ lastRet' = Returned(c, <<"force", "ref", lzData, "fast">>)
              /\ UNCHANGED <<ipc, iop>>
         [] lzState = UNINIT ->
              /\ ipc' = [ipc EXCEPT ![c] = "lz_cas"]
              /\ iop' = [iop EXCEPT ![c] = "force"]
              /\ lastRet' = NoReturn
         [] OTHER ->
              /\ ipc' = [ipc EXCEPT ![c] = "lz_wait"]
              /\ iop' = [iop EXCEPT ![c] = "force"]
              /\ lastRet' = NoReturn
    /\ UNCHANGED <<lzState, lzData, initRuns, olState, olValue, onceRuns,
                   ival>>
    /\ initFrame

\* LazyLock::really_init: the compare-exchange UNINIT -> INITIALIZING
LazyReallyInit(c) ==
    /\ ipc[c] = "lz_cas"
    /\ IF compare_exchange(lzState, UNINIT)
       THEN /\ lzState' = INITIALIZING
            /\ ipc' = [ipc EXCEPT ![c] = "lz_run"]
       ELSE /\ ipc' = [ipc EXCEPT ![c] = "lz_wait"]
            /\ UNCHANGED lzState
    /\ UNCHANGED <<lzData, initRuns, olState, olValue, onceRuns, iop, ival>>
    /\ lastRet' = NoReturn
    /\ initFrame

\* really_init: f = ManuallyDrop::take(&mut data.f); value = f()
LazyRunInitializer(c) ==
    /\ ipc[c] = "lz_run"
    /\ lzData' = MovedOut
    /\ initRuns' = initRuns + 1
    /\ ival' = [ival EXCEPT ![c] = InitValue(initRuns + 1)]
    /\ ipc' = [ipc EXCEPT ![c] = "lz_store"]
    /\ UNCHANGED <<lzState, olState, olValue, onceRuns, iop>>
    /\ lastRet' = NoReturn
    /\ initFrame

\* really_init: (*this.data.get()).value = ManuallyDrop::new(value)
LazyStore(c) ==
    /\ ipc[c] = "lz_store"
    /\ lzData' = Value(ival[c])
    /\ ival' = [ival EXCEPT ![c] = 0]
    /\ ipc' = [ipc EXCEPT ![c] = "lz_publish"]
    /\ UNCHANGED <<lzState, initRuns, olState, olValue, onceRuns, iop>>
    /\ lastRet' = NoReturn
    /\ initFrame

\* really_init: the compare-exchange INITIALIZING -> INITIALIZED (its result
\* is dropped), then &value is returned
LazyPublish(c) ==
    /\ ipc[c] = "lz_publish"
    /\ lzState' = IF compare_exchange(lzState, INITIALIZING)
                  THEN INITIALIZED ELSE lzState
    /\ lastRet' = Returned(c, <<iop[c], "ref", lzData>>)
    /\ ipc' = [ipc EXCEPT ![c] = "idle"]
    /\ iop' = [iop EXCEPT ![c] = "none"]
    /\ UNCHANGED <<lzData, initRuns, olState, olValue, onceRuns, ival>>
    /\ initFrame

\* LazyLock::force_wait called directly
LazyForceWait(c) ==
    /\ ipc[c] = "idle"
    /\ ipc' = [ipc EXCEPT ![c] = "lz_wait"]
    /\ iop' = [iop EXCEPT ![c] = "force_wait"]
    /\ UNCHANGED <<lzState, lzData, initRuns, olState, olValue, onceRuns,
                   ival>>
    /\ lastRet' = NoReturn
    /\ initFrame

\* LazyLock::wait leaves its loop and force_wait returns &value
LazyWaitReturn(c) ==
    /\ ipc[c] = "lz_wait"
    /\ WaitDone(lzState)
    /\ lastRet' = Returned(c, <<iop[c], "ref", lzData>>)
    /\ ipc' = [ipc EXCEPT ![c] = "idle"]
    /\ iop' = [iop EXCEPT ![c] = "none"]
    /\ UNCHANGED <<lzState, lzData, initRuns, olState, olValue, onceRuns,
                   ival>>
    /\ initFrame

\* LazyLock::get
LazyGet(c) ==
    /\ ipc[c] = "idle"
    /\ lastRet' = Returned(c,
                   IF lzState = INITIALIZED
                   THEN <<"lazy_get", "Some", lzData>>
                   ELSE <<"lazy_get", "None", Nothing>>)
    /\ UNCHANGED <<lzState, lzData, initRuns, olState, olValue, onceRuns,
                   ipc, iop, ival>>
    /\ initFrame

\* ---------------------------- OnceLock -----------------------------------
\* OnceLock::get
OnceGet(c) ==
    /\ ipc[c] = "idle"
    /\ lastRet' = Returned(c,
                   IF olState = INITIALIZED
                   THEN <<"once_get", "Some", olValue>>
                   ELSE <<"once_get", "None", Nothing>>)
    /\ UNCHANGED <<lzState, lzData, initRuns, olState, olValue, onceRuns,
                   ipc, iop, ival>>
    /\ initFrame

\* OnceLock::set(value): Err(value) when get() is Some, else init_once
OnceSet(c) ==
    /\ ipc[c] = "idle"
    /\ IF olState = INITIALIZED
       THEN /\ lastRet' = Returned(c, <<"set", "Err", Value(SetArg(c))>>)
            /\ UNCHANGED <<ipc, iop, ival>>
       ELSE /\ ipc' = [ipc EXCEPT ![c] = "ol_cas"]
            /\ iop' = [iop EXCEPT ![c] = "set"]
            /\ ival' = [ival EXCEPT ![c] = SetArg(c)]
            /\ lastRet' = NoReturn
    /\ UNCHANGED <<lzState, lzData, initRuns, olState, olValue, onceRuns>>
    /\ initFrame

\* OnceLock::get_or_init(f): Some(value) when get() is Some, else init_once
OnceGetOrInit(c) ==
    /\ ipc[c] = "idle"
    /\ IF olState = INITIALIZED
       THEN /\ lastRet' = Returned(c, <<"get_or_init", "Some", olValue>>)
            /\ UNCHANGED <<ipc, iop>>
       ELSE /\ ipc' = [ipc EXCEPT ![c] = "ol_cas"]
            /\ iop' = [iop EXCEPT ![c] = "get_or_init"]
            /\ lastRet' = NoReturn
    /\ UNCHANGED <<lzState, lzData, initRuns, olState, olValue, onceRuns,
                   ival>>
    /\ initFrame

\* what the call in progress returns once init_once or wait has returned
OnceReturn(op, value) ==
    IF op = "set" THEN <<"set", "Ok", Nothing>>
    ELSE IF op = "get_or_init" THEN <<"get_or_init", "Some", value>>
    ELSE <<op, "ref", value>>

\* OnceLock::init_once: the compare-exchange UNINIT -> INITIALIZING
OnceInitOnce(c) ==
    /\ ipc[c] = "ol_cas"
    /\ IF compare_exchange(olState, UNINIT)
       THEN /\ olState' = INITIALIZING
            /\ ipc' = [ipc EXCEPT ![c] = "ol_run"]
       ELSE /\ ipc' = [ipc EXCEPT ![c] = "ol_wait"]
            /\ UNCHANGED olState
    /\ UNCHANGED <<lzState, lzData, initRuns, olValue, onceRuns, iop, ival>>
    /\ lastRet' = NoReturn
    /\ initFrame

\* init_once: value = f()
OnceRunClosure(c) ==
    /\ ipc[c] = "ol_run"
    /\ onceRuns' = onceRuns + 1
    /\ ival' = [ival EXCEPT ![c] = IF iop[c] = "set" THEN ival[c] ELSE InitFn(c)]
    /\ ipc' = [ipc EXCEPT ![c] = "ol_store"]
    /\ UNCHANGED <<lzState, lzData, initRuns, olState, olValue, iop>>
    /\ lastRet' = NoReturn
    /\ initFrame

\* init_once: *self.value.get() = MaybeUninit::new(value)
OnceStore(c) ==
    /\ ipc[c] = "ol_store"
    /\ olValue' = Value(ival[c])
    /\ ival' = [ival EXCEPT ![c] = 0]
    /\ ipc' = [ipc EXCEPT ![c] = "ol_publish"]
    /\ UNCHANGED <<lzState, lzData, initRuns, olState, onceRuns, iop>>
    /\ lastRet' = NoReturn
    /\ initFrame

\* init_once: the compare-exchange INITIALIZING -> INITIALIZED, then the
\* reference is returned
OncePublish(c) ==
    /\ ipc[c] = "ol_publish"
    /\ olState' = IF compare_exchange(olState, INITIALIZING)
                  THEN INITIALIZED ELSE olState
    /\ lastRet' = Returned(c, OnceReturn(iop[c], olValue))
    /\ ipc' = [ipc EXCEPT ![c] = "idle"]
    /\ iop' = [iop EXCEPT ![c] = "none"]
    /\ ival' = [ival EXCEPT ![c] = 0]
    /\ UNCHANGED <<lzState, lzData, initRuns, olValue, onceRuns>>
    /\ initFrame

\* OnceLock::wait called directly
OnceWait(c) ==
    /\ ipc[c] = "idle"
    /\ ipc' = [ipc EXCEPT ![c] = "ol_wait"]
    /\ iop' = [iop EXCEPT ![c] = "wait"]
    /\ UNCHANGED <<lzState, lzData, initRuns, olState, olValue, onceRuns,
                   ival>>
    /\ lastRet' = NoReturn
    /\ initFrame

\* OnceLock::wait leaves its loop and returns the reference
OnceWaitReturn(c) ==
    /\ ipc[c] = "ol_wait"
    /\ WaitDone(olState)
    /\ lastRet' = Returned(c, OnceReturn(iop[c], olValue))
    /\ ipc' = [ipc EXCEPT ![c] = "idle"]
    /\ iop' = [iop EXCEPT ![c] = "none"]
    /\ ival' = [ival EXCEPT ![c] = 0]
    /\ UNCHANGED <<lzState, lzData, initRuns, olState, olValue, onceRuns>>
    /\ initFrame

(***************************************************************************)
(* Specification of Part II: the container of Part I is left unborn.       *)
(***************************************************************************)
InitInit ==
    /\ LockInit
    /\ strategy = "EmptyMutex"
    /\ ~debugBuild
    /\ irql = [c \in Ctx |-> PASSIVE_LEVEL]
    /\ InitializersNew

InitNext ==
    \/ \E c \in Ctx : LazyForce(c)
    \/ \E c \in Ctx : LazyReallyInit(c)
    \/ \E c \in Ctx : LazyRunInitializer(c)
    \/ \E c \in Ctx : LazyStore(c)
    \/ \E c \in Ctx : LazyPublish(c)
    \/ \E c \in Ctx : LazyForceWait(c)
    \/ \E c \in Ctx : LazyWaitReturn(c)
    \/ \E c \in Ctx : LazyGet(c)
    \/ \E c \in Ctx : OnceGet(c)
    \/ \E c \in Ctx : OnceSet(c)
    \/ \E c \in Ctx : OnceGetOrInit(c)
    \/ \E c \in Ctx : OnceInitOnce(c)
    \/ \E c \in Ctx : OnceRunClosure(c)
    \/ \E c \in Ctx : OnceStore(c)
    \/ \E c \in Ctx : OncePublish(c)
    \/ \E c \in Ctx : OnceWait(c)
    \/ \E c \in Ctx : OnceWaitReturn(c)

SpecInit == InitInit /\ [][InitNext]_vars

(***************************************************************************)
(* Teardown of the concurrent initializers: LazyLock::drop, OnceLock::drop. *)
(* A panic stops the system, and so may the use of a destroyed object.     *)
(***************************************************************************)
\* number of runs of a payload's destructor up to which teardown is followed
MaxTeardowns == 2

Running == fatal = "none"

\* the teardown calls touch no lock state but `fatal`
teardownFrame ==
    UNCHANGED <<strategy, debugBuild, phase, newResult, pool, owner,
                sharedCount, queue, savedIrql, handleIrql, payload, pc, irql,
                entryIrql, guard, localv, cycles, lastCall, cell, lcState,
                lcRuns, dropLog,
                writer, cellRuns, objVars>>

\* a teardown that treats every state but INITIALIZED as UNINIT
TeardownTargetLenient(state) == IF state = INITIALIZED THEN "value" ELSE "f"

\* LazyLock::drop: the arm of `match state` that is taken: drop of data.f,
\* drop of data.value, or panic!()
TeardownTarget(state) ==
    CASE state = UNINIT -> "f"
      [] state = INITIALIZED -> "value"
      [] OTHER -> "panic"

\* LazyLock::drop: the pending function is dropped in state UNINIT, the
\* payload in state INITIALIZED, and the call panics in state INITIALIZING.
\* The closing drop_in_place(state.as_ptr()) drops a u32 and leaves the
\* state as it is.  Dropping a payload that is already destroyed is
\* undefined: the destructor runs again and the system may stop.
LazyDrop(c) ==
    /\ Running
    /\ ipc[c] = "idle"
    /\ CASE TeardownTarget(lzState) = "f" ->
              /\ lzData' = Destroyed
              /\ lastRet' = Returned(c, <<"lazy_drop", "unit", Nothing>>)
              /\ UNCHANGED lzDrops
              /\ IF lzData = Destroyed
                 THEN fatal' \in {"none", "bugcheck"}
                 ELSE UNCHANGED fatal
         [] TeardownTarget(lzState) = "value" ->
              /\ lzDrops < MaxTeardowns
              /\ lzData' = Destroyed
              /\ lzDrops' = lzDrops + 1
              /\ lastRet' = Returned(c, <<"lazy_drop", "unit", Nothing>>)
              /\ IF lzData = Destroyed
                 THEN fatal' \in {"none", "bugcheck"}
                 ELSE UNCHANGED fatal
         [] OTHER ->
              /\ fatal' = "panic"
              /\ lastRet' = Returned(c, <<"lazy_drop", "Panic", Nothing>>)
              /\ UNCHANGED <<lzData, lzDrops>>
    /\ UNCHANGED <<lzState, initRuns, olState, olValue, onceRuns, ipc, iop,
                   ival, olDrops>>
    /\ teardownFrame

\* really_init when the function it takes was dropped by an earlier
\* LazyLock::drop in state UNINIT: calling it is undefined; the system stops
\* or the call yields some value.
LazyRunDestroyed(c) ==
    /\ Running
    /\ ipc[c] = "lz_run"
    /\ lzData = Destroyed
    /\ \/ /\ fatal' = "bugcheck"
          /\ UNCHANGED <<lzData, initRuns, ival, ipc>>
       \/ /\ lzData' = MovedOut
          /\ initRuns' = initRuns + 1
          /\ \E v \in {0, InitValue(initRuns + 1)} :
                ival' = [ival EXCEPT ![c] = v]
          /\ ipc' = [ipc EXCEPT ![c] = "lz_store"]
          /\ UNCHANGED fatal
    /\ lastRet' = NoReturn
    /\ UNCHANGED <<lzState, olState, olValue, onceRuns, iop, lzDrops, olDrops>>
    /\ teardownFrame

\* OnceLock::drop: when is_initialized(), drop_in_place(state.as_ptr())
\* (a u32: nothing happens) and assume_init_drop() of the value; nothing
\* otherwise.
OnceDrop(c) ==
    /\ Running
    /\ ipc[c] = "idle"
    /\ IF olState = INITIALIZED
       THEN /\ olDrops < MaxTeardowns
            /\ olValue' = Destroyed
            /\ olDrops' = olDrops + 1
            /\ IF olValue = Destroyed
               THEN fatal' \in {"none", "bugcheck"}
               ELSE UNCHANGED fatal
       ELSE UNCHANGED <<olValue, olDrops, fatal>>
    /\ lastRet' = Returned(c, <<"once_drop", "unit", Nothing>>)
    /\ UNCHANGED <<lzState, lzData, initRuns, olState, onceRuns, ipc, iop,
                   ival, lzDrops>>
    /\ teardownFrame

TeardownNext ==
    \/ \E c \in Ctx : LazyDrop(c)
    \/ \E c \in Ctx : OnceDrop(c)
    \/ \E c \in Ctx : LazyRunDestroyed(c)
    \/ \E c \in Ctx : Running /\ LazyForce(c)
    \/ \E c \in Ctx : Running /\ LazyReallyInit(c)
    \/ \E c \in Ctx : Running /\ lzData = HoldsFn /\ LazyRunInitializer(c)
    \/ \E c \in Ctx : Running /\ LazyStore(c)
    \/ \E c \in Ctx : Running /\ LazyPublish(c)
    \/ \E c \in Ctx : Running /\ LazyForceWait(c)
    \/ \E c \in Ctx : Running /\ LazyWaitReturn(c)
    \/ \E c \in Ctx : Running /\ LazyGet(c)
    \/ \E c \in Ctx : Running /\ OnceGet(c)
    \/ \E c \in Ctx : Running /\ OnceSet(c)
    \/ \E c \in Ctx : Running /\ OnceGetOrInit(c)
    \/ \E c \in Ctx : Running /\ OnceInitOnce(c)
    \/ \E c \in Ctx : Running /\ OnceRunClosure(c)
    \/ \E c \in Ctx : Running /\ OnceStore(c)
    \/ \E c \in Ctx : Running /\ OncePublish(c)
    \/ \E c \in Ctx : Running /\ OnceWait(c)
    \/ \E c \in Ctx : Running /\ OnceWaitReturn(c)

SpecTeardown == InitInit /\ [][TeardownNext]_vars

(***************************************************************************)
(* Part III: OnceCell<T>, the single-context cell.  Each of its methods is *)
(* one step.                                                               *)
(***************************************************************************)
\* a cell that always looks empty
is_some_never(v) == FALSE

\* OnceCell::get().is_some(): the Option held by the cell is Some
is_some(v) == v # Nothing

\* the calls on the OnceCell touch neither the locks nor the LazyLock and
\* the OnceLock
cellFrame ==
    UNCHANGED <<lockVars, lzState, lzData, initRuns, olState, olValue,
                onceRuns, ipc, iop, ival, lzDrops, olDrops, lcState, lcRuns,
                dropLog,
                writer, cellRuns, objVars>>

\* OnceCell::get
CellGet(c) ==
    /\ ipc[c] = "idle"
    /\ lastRet' = Returned(c,
                   IF is_some(cell)
                   THEN <<"cell_get", "Some", cell>>
                   ELSE <<"cell_get", "None", Nothing>>)
    /\ UNCHANGED cell
    /\ cellFrame

\* OnceCell::set(value): Err(value) when get() is Some, else the value is
\* stored and Ok(()) returned
CellSet(c) ==
    /\ ipc[c] = "idle"
    /\ IF is_some(cell)
       THEN /\ lastRet' = Returned(c, <<"cell_set", "Err", Value(SetArg(c))>>)
            /\ UNCHANGED cell
       ELSE /\ cell' = Value(SetArg(c))
            /\ lastRet' = Returned(c, <<"cell_set", "Ok", Nothing>>)
    /\ cellFrame

(***************************************************************************)
(* LazyCell<T, F>, the lazy value for one context.  Each method is one     *)
(* step; a panic stops the system.                                         *)
(***************************************************************************)
\* the calls on the LazyCell touch nothing but the LazyCell and `fatal`
lazyCellFrame ==
    UNCHANGED <<strategy, debugBuild, phase, newResult, pool, owner,
                sharedCount, queue, savedIrql, handleIrql, payload, pc, irql,
                entryIrql, guard, localv, cycles, lastCall, lzState, lzData,
                initRuns, olState, olValue, onceRuns, ipc, iop, ival, lzDrops,
                olDrops, cell, dropLog,
                writer, cellRuns, objVars>>

\* a cell that never counts as initialized
IsInitNever(st) == FALSE

\* the match arm State::Init(data)
IsInit(st) == st[1] = "value"

\* a drop that leaves the state it found
StateAfterDropKept(st) == st

\* LazyCell::drop: ptr::write(state, State::Poisoned)
StateAfterDrop(st) == Poisoned

\* LazyCell::get: Some(data) in State::Init, None otherwise
LazyCellGet(c) ==
    /\ Running
    /\ ipc[c] = "idle"
    /\ lastRet' = Returned(c,
                   IF IsInit(lcState)
                   THEN <<"lazycell_get", "Some", lcState>>
                   ELSE <<"lazycell_get", "None", Nothing>>)
    /\ UNCHANGED <<lcState, lcRuns, fatal>>
    /\ lazyCellFrame

\* LazyCell::force (and Deref): the value in State::Init; really_init in
\* State::Uninit (the function is taken out, run, and its value written as
\* State::Init); a panic in State::Poisoned
LazyCellForce(c) ==
    /\ Running
    /\ ipc[c] = "idle"
    /\ CASE IsInit(lcState) ->
              /\ lastRet' = Returned(c, <<"lazycell_force", "ref", lcState>>)
              /\ UNCHANGED <<lcState, lcRuns, fatal>>
         [] lcState = HoldsFn ->
              /\ lcRuns' = lcRuns + 1
              /\ lcState' = Value(InitValue(lcRuns + 1))
              /\ lastRet' = Returned(c, <<"lazycell_force", "ref",
                                          Value(InitValue(lcRuns + 1))>>)
              /\ UNCHANGED fatal
         [] OTHER ->
              /\ fatal' = "panic"
              /\ lastRet' = Returned(c, <<"lazycell_force", "Panic", Nothing>>)
              /\ UNCHANGED <<lcState, lcRuns>>
    /\ lazyCellFrame

\* LazyCell::drop: in State::Uninit and State::Init the content is dropped
\* and State::Poisoned written; a panic in State::Poisoned
LazyCellDrop(c) ==
    /\ Running
    /\ ipc[c] = "idle"
    /\ IF lcState # Poisoned
       THEN /\ lcState' = StateAfterDrop(lcState)
            /\ lastRet' = Returned(c, <<"lazycell_drop", "unit", Nothing>>)
            /\ UNCHANGED fatal
       ELSE /\ fatal' = "panic"
            /\ lastRet' = Returned(c, <<"lazycell_drop", "Panic", Nothing>>)
            /\ UNCHANGED lcState
    /\ UNCHANGED lcRuns
    /\ lazyCellFrame

(***************************************************************************)
(* Specification of the single-context cells: LazyCell and OnceCell, one   *)
(* whole call per step.                                                    *)
(***************************************************************************)
CellNext ==
    \/ \E c \in Ctx : LazyCellGet(c)
    \/ \E c \in Ctx : LazyCellForce(c)
    \/ \E c \in Ctx : LazyCellDrop(c)
    \/ \E c \in Ctx : Running /\ CellGet(c)
    \/ \E c \in Ctx : Running /\ CellSet(c)

SpecCell == InitInit /\ [][CellNext]_vars

(***************************************************************************)
(* Specification of LazyLock and OnceLock under fair scheduling: a context *)
(* that is inside a call keeps running (the wait loops spin on their own   *)
(* processor and the initializer terminates), so every step of a call that *)
(* stays possible is eventually taken.  Whether a call is made at all is   *)
(* left open.                                                              *)
(***************************************************************************)
SpecInitFair ==
    /\ InitInit
    /\ [][InitNext]_vars
    /\ \A c \in Ctx : /\ WF_vars(LazyReallyInit(c))
                      /\ WF_vars(LazyRunInitializer(c))
                      /\ WF_vars(LazyStore(c))
                      /\ WF_vars(LazyPublish(c))
                      /\ WF_vars(LazyWaitReturn(c))
                      /\ WF_vars(OnceInitOnce(c))
                      /\ WF_vars(OnceRunClosure(c))
                      /\ WF_vars(OnceStore(c))
                      /\ WF_vars(OncePublish(c))
                      /\ WF_vars(OnceWaitReturn(c))

(***************************************************************************)
(* Specification of all four lazy structures used together: the concurrent *)
(* calls on LazyLock and OnceLock interleaved with the calls on LazyCell   *)
(* and OnceCell.                                                           *)
(***************************************************************************)
ProbeNext ==
    \/ \E c \in Ctx : Running /\ LazyForce(c)
    \/ \E c \in Ctx : Running /\ LazyReallyInit(c)
    \/ \E c \in Ctx : Running /\ LazyRunInitializer(c)
    \/ \E c \in Ctx : Running /\ LazyStore(c)
    \/ \E c \in Ctx : Running /\ LazyPublish(c)
    \/ \E c \in Ctx : Running /\ LazyForceWait(c)
    \/ \E c \in Ctx : Running /\ LazyWaitReturn(c)
    \/ \E c \in Ctx : Running /\ LazyGet(c)
    \/ \E c \in Ctx : Running /\ OnceGet(c)
    \/ \E c \in Ctx : Running /\ OnceSet(c)
    \/ \E c \in Ctx : Running /\ OnceGetOrInit(c)
    \/ \E c \in Ctx : Running /\ OnceInitOnce(c)
    \/ \E c \in Ctx : Running /\ OnceRunClosure(c)
    \/ \E c \in Ctx : Running /\ OnceStore(c)
    \/ \E c \in Ctx : Running /\ OncePublish(c)
    \/ \E c \in Ctx : Running /\ OnceWait(c)
    \/ \E c \in Ctx : Running /\ OnceWaitReturn(c)
    \/ \E c \in Ctx : LazyCellGet(c)
    \/ \E c \in Ctx : LazyCellForce(c)
    \/ \E c \in Ctx : LazyCellDrop(c)
    \/ \E c \in Ctx : Running /\ CellGet(c)
    \/ \E c \in Ctx : Running /\ CellSet(c)

SpecProbe == InitInit /\ [][ProbeNext]_vars

(***************************************************************************)
(* Specification of the memory ordering of LazyLock and OnceLock.  The     *)
(* payload is an ordinary (non-atomic) location; a context other than the  *)
(* initializing one is certain to read what the initializing context has   *)
(* written only if its load of the state synchronizes with the publishing  *)
(* write (a release write observed by an acquire load).  Without that the  *)
(* read races with the write, and may yield the written payload or what    *)
(* the location held earlier.  The steps of the initializing context are   *)
(* those of Part II; the steps that load the state and hand out the        *)
(* payload are taken again here with the orderings they use.               *)
(***************************************************************************)
\* ordering of `self.state.load(..)` in LazyLock::get_state, LazyLock::wait
\* and OnceLock::is_initialized
StateLoadOrdering == "Relaxed"

\* success ordering of the compare_exchange INITIALIZING -> INITIALIZED
PublishOrdering == "SeqCst"

\* core::sync::atomic::Ordering: orderings with acquire / release semantics
Acquires(o) == o \in {"Acquire", "AcqRel", "SeqCst"}
Releases(o) == o \in {"Release", "AcqRel", "SeqCst"}

\* what a read of the payload can yield in context c once it has observed
\* INITIALIZED: cur is the payload written by context w, earlier what the
\* location held before; a context reads its own writes
PayloadSeen(c, w, cur, earlier) ==
    IF c = w \/ (Releases(PublishOrdering) /\ Acquires(StateLoadOrdering))
    THEN {cur}
    ELSE {cur} \cup earlier

\* the steps of this specification leave alone what initFrame names, except
\* the record of the writers
ordFrame ==
    UNCHANGED <<lockVars, lzDrops, olDrops, cell, lcState, lcRuns, dropLog,
                cellRuns, objVars>>

\* LazyLock: the union held the function, then its moved-out bytes
LazyEarlier == {HoldsFn, MovedOut}

\* OnceLock: MaybeUninit::uninit()
OnceEarlier == {NoValueYet}

\* LazyLock::force, state loaded by get_state
OrdLazyForce(c) ==
    /\ ipc[c] = "idle"
    /\ CASE FastPath(lzState) ->
              /\ \E seen \in PayloadSeen(c, writer["lazy"], lzData, LazyEarlier) :
                   lastRet' = Returned(c, <<"force", "ref", seen, "fast">>)
              /\ UNCHANGED <<ipc, iop>>
         [] lzState = UNINIT ->
              /\ ipc' = [ipc EXCEPT ![c] = "lz_cas"]
              /\ iop' = [iop EXCEPT ![c] = "force"]
              /\ lastRet' = NoReturn
         [] OTHER ->
              /\ ipc' = [ipc EXCEPT ![c] = "lz_wait"]
              /\ iop' = [iop EXCEPT ![c] = "force"]
              /\ lastRet' = NoReturn
    /\ UNCHANGED <<lzState, lzData, initRuns, olState, olValue, onceRuns,
                   ival>>
    /\ UNCHANGED writer
    /\ ordFrame

\* LazyLock::get, state loaded by get_state
OrdLazyGet(c) ==
    /\ ipc[c] = "idle"
    /\ IF lzState = INITIALIZED
       THEN \E seen \in PayloadSeen(c, writer["lazy"], lzData, LazyEarlier) :
              lastRet' = Returned(c, <<"lazy_get", "Some", seen>>)
       ELSE lastRet' = Returned(c, <<"lazy_get", "None", Nothing>>)
    /\ UNCHANGED <<lzState, lzData, initRuns, olState, olValue, onceRuns,
                   ipc, iop, ival>>
    /\ UNCHANGED writer
    /\ ordFrame

\* LazyLock::wait has loaded INITIALIZED and force_wait returns &value
OrdLazyWaitReturn(c) ==
    /\ ipc[c] = "lz_wait"
    /\ WaitDone(lzState)
    /\ \E seen \in PayloadSeen(c, writer["lazy"], lzData, LazyEarlier) :
         lastRet' = Returned(c, <<iop[c], "ref", seen>>)
    /\ ipc' = [ipc EXCEPT ![c] = "idle"]
    /\ iop' = [iop EXCEPT ![c] = "none"]
    /\ UNCHANGED <<lzState, lzData, initRuns, olState, olValue, onceRuns,
                   ival>>
    /\ UNCHANGED writer
    /\ ordFrame

\* OnceLock::get, state loaded by is_initialized
OrdOnceGet(c) ==
    /\ ipc[c] = "idle"
    /\ IF olState = INITIALIZED
       THEN \E seen \in PayloadSeen(c, writer["once"], olValue,
                                   OnceEarlier) :
              lastRet' = Returned(c, <<"once_get", "Some", seen>>)
       ELSE lastRet' = Returned(c, <<"once_get", "None", Nothing>>)
    /\ UNCHANGED <<lzState, lzData, initRuns, olState, olValue, onceRuns,
                   ipc, iop, ival>>
    /\ UNCHANGED writer
    /\ ordFrame

\* OnceLock::get_or_init, whose get() loads the state by is_initialized
OrdOnceGetOrInit(c) ==
    /\ ipc[c] = "idle"
    /\ IF olState = INITIALIZED
       THEN /\ \E seen \in PayloadSeen(c, writer["once"], olValue,
                                   OnceEarlier) :
                 lastRet' = Returned(c, <<"get_or_init", "Some", seen>>)
            /\ UNCHANGED <<ipc, iop>>
       ELSE /\ ipc' = [ipc EXCEPT ![c] = "ol_cas"]
            /\ iop' = [iop EXCEPT ![c] = "get_or_init"]
            /\ lastRet' = NoReturn
    /\ UNCHANGED <<lzState, lzData, initRuns, olState, olValue, onceRuns,
                   ival>>
    /\ UNCHANGED writer
    /\ ordFrame

\* OnceLock::wait has loaded INITIALIZED by is_initialized and returns the
\* reference
OrdOnceWaitReturn(c) ==
    /\ ipc[c] = "ol_wait"
    /\ WaitDone(olState)
    /\ \E seen \in PayloadSeen(c, writer["once"], olValue,
                                   OnceEarlier) :
         lastRet' = Returned(c, OnceReturn(iop[c], seen))
    /\ ipc' = [ipc EXCEPT ![c] = "idle"]
    /\ iop' = [iop EXCEPT ![c] = "none"]
    /\ ival' = [ival EXCEPT ![c] = 0]
    /\ UNCHANGED <<lzState, lzData, initRuns, olState, olValue, onceRuns>>
    /\ UNCHANGED writer
    /\ ordFrame

\* really_init: (*this.data.get()).value = ManuallyDrop::new(value), by c
OrdLazyStore(c) ==
    /\ ipc[c] = "lz_store"
    /\ lzData' = Value(ival[c])
    /\ writer' = [writer EXCEPT !["lazy"] = c]
    /\ ival' = [ival EXCEPT ![c] = 0]
    /\ ipc' = [ipc EXCEPT ![c] = "lz_publish"]
    /\ UNCHANGED <<lzState, initRuns, olState, olValue, onceRuns, iop>>
    /\ lastRet' = NoReturn
    /\ ordFrame

\* init_once: *self.value.get() = MaybeUninit::new(value), by c
OrdOnceStore(c) ==
    /\ ipc[c] = "ol_store"
    /\ olValue' = Value(ival[c])
    /\ writer' = [writer EXCEPT !["once"] = c]
    /\ ival' = [ival EXCEPT ![c] = 0]
    /\ ipc' = [ipc EXCEPT ![c] = "ol_publish"]
    /\ UNCHANGED <<lzState, lzData, initRuns, olState, onceRuns, iop>>
    /\ lastRet' = NoReturn
    /\ ordFrame

OrdNext ==
    \/ \E c \in Ctx : OrdLazyForce(c)
    \/ \E c \in Ctx : LazyReallyInit(c)
    \/ \E c \in Ctx : LazyRunInitializer(c)
    \/ \E c \in Ctx : OrdLazyStore(c)
    \/ \E c \in Ctx : LazyPublish(c)
    \/ \E c \in Ctx : LazyForceWait(c)
    \/ \E c \in Ctx : OrdLazyWaitReturn(c)
    \/ \E c \in Ctx : OrdLazyGet(c)
    \/ \E c \in Ctx : OrdOnceGet(c)
    \/ \E c \in Ctx : OnceSet(c)
    \/ \E c \in Ctx : OrdOnceGetOrInit(c)
    \/ \E c \in Ctx : OnceInitOnce(c)
    \/ \E c \in Ctx : OnceRunClosure(c)
    \/ \E c \in Ctx : OrdOnceStore(c)
    \/ \E c \in Ctx : OncePublish(c)
    \/ \E c \in Ctx : OnceWait(c)
    \/ \E c \in Ctx : OrdOnceWaitReturn(c)

SpecOrdering == InitInit /\ [][OrdNext]_vars

(***************************************************************************)
(* Specification of the sequential use of OnceLock and OnceCell: a call    *)
(* starts and proceeds only while no other context is inside a call.       *)
(***************************************************************************)
Alone(c) == \A d \in Ctx \ {c} : ipc[d] = "idle"

SeqNext ==
    \/ \E c \in Ctx : Alone(c) /\ OnceGet(c)
    \/ \E c \in Ctx : Alone(c) /\ OnceSet(c)
    \/ \E c \in Ctx : Alone(c) /\ OnceGetOrInit(c)
    \/ \E c \in Ctx : Alone(c) /\ OnceInitOnce(c)
    \/ \E c \in Ctx : Alone(c) /\ OnceRunClosure(c)
    \/ \E c \in Ctx : Alone(c) /\ OnceStore(c)
    \/ \E c \in Ctx : Alone(c) /\ OncePublish(c)
    \/ \E c \in Ctx : Alone(c) /\ CellGet(c)
    \/ \E c \in Ctx : Alone(c) /\ CellSet(c)

SpecSeq == InitInit /\ [][SeqNext]_vars

(***************************************************************************)
(* OnceCell::get_or_init, OnceCell::take and OnceLock::take, used by one   *)
(* caller at a time: take on the OnceLock needs &mut self.                 *)
(***************************************************************************)
\* number of runs of the functions handed to get_or_init / set up to which
\* the calls are followed
MaxRuns == 2

\* OnceCell::get_or_init(f): on None the function is run, the value set and
\* get() returned; the other arm of the match returns None
CellGetOrInit(c) ==
    /\ ipc[c] = "idle"
    /\ cellRuns < MaxRuns
    /\ IF ~is_some(cell)
       THEN /\ cellRuns' = cellRuns + 1
            /\ cell' = Value(InitFn(c))
            /\ lastRet' = Returned(c, <<"cell_get_or_init", "Some",
                                        Value(InitFn(c))>>)
       ELSE /\ lastRet' = Returned(c, <<"cell_get_or_init", "None", Nothing>>)
            /\ UNCHANGED <<cell, cellRuns>>
    /\ UNCHANGED <<lockVars, lzState, lzData, initRuns, olState, olValue,
                   onceRuns, ipc, iop, ival, lzDrops, olDrops, lcState,
                   lcRuns, dropLog, writer, objVars>>

\* OnceCell::take: mem::take of the Option
CellTake(c) ==
    /\ ipc[c] = "idle"
    /\ lastRet' = Returned(c,
                   IF is_some(cell)
                   THEN <<"cell_take", "Some", cell>>
                   ELSE <<"cell_take", "None", Nothing>>)
    /\ cell' = Nothing
    /\ cellFrame

\* a take that leaves the state as it is
StateAfterTakeKept(state) == state

\* OnceLock::take: self.state = AtomicU32::new(UNINIT)
StateAfterTake(state) == UNINIT

\* OnceLock::take(&mut self): on Initialized the state is reset and the
\* value read out of its place, otherwise None
OnceTake(c) ==
    /\ \A d \in Ctx : ipc[d] = "idle"
    /\ onceRuns < MaxRuns
    /\ IF olState = INITIALIZED
       THEN /\ olState' = StateAfterTake(olState)
            /\ olValue' = MovedOut
            /\ lastRet' = Returned(c, <<"take", "Some", olValue>>)
       ELSE /\ lastRet' = Returned(c, <<"take", "None", Nothing>>)
            /\ UNCHANGED <<olState, olValue>>
    /\ UNCHANGED <<lzState, lzData, initRuns, onceRuns, ipc, iop, ival>>
    /\ initFrame

TakeNext ==
    \/ \E c \in Ctx : Alone(c) /\ OnceGet(c)
    \/ \E c \in Ctx : Alone(c) /\ OnceSet(c)
    \/ \E c \in Ctx : Alone(c) /\ OnceGetOrInit(c)
    \/ \E c \in Ctx : Alone(c) /\ OnceInitOnce(c)
    \/ \E c \in Ctx : Alone(c) /\ OnceRunClosure(c)
    \/ \E c \in Ctx : Alone(c) /\ OnceStore(c)
    \/ \E c \in Ctx : Alone(c) /\ OncePublish(c)
    \/ \E c \in Ctx : OnceTake(c)
    \/ \E c \in Ctx : Alone(c) /\ CellGet(c)
    \/ \E c \in Ctx : Alone(c) /\ CellSet(c)
    \/ \E c \in Ctx : Alone(c) /\ CellGetOrInit(c)
    \/ \E c \in Ctx : Alone(c) /\ CellTake(c)

SpecTake == InitInit /\ [][TakeNext]_vars

(***************************************************************************)
(* Specification of the container used by one context at a time, from its  *)
(* construction to its drop.                                               *)
(***************************************************************************)
Solo(c) == \A d \in Ctx \ {c} : pc[d] = "idle"

SoloNext ==
    \/ LockedNew
    \/ \E c \in Ctx : Solo(c) /\ LockCall(c)
    \/ \E c \in Ctx : Solo(c) /\ Acquire(c)
    \/ \E c \in Ctx : Solo(c) /\ LockSharedCall(c)
    \/ \E c \in Ctx : Solo(c) /\ ReadPayload(c)
    \/ \E c \in Ctx : Solo(c) /\ WritePayload(c)
    \/ \E c \in Ctx : Solo(c) /\ LockedDeref(c)
    \/ \E c \in Ctx : Solo(c) /\ DropGuard(c)
    \/ LockedDrop

SpecSolo == Init /\ [][SoloNext]_vars

(***************************************************************************)
(* The standalone lock of lock.rs: MutexLock<M> with the scoped wrappers   *)
(* UniqueLock and SharedLock.  The lock holds a strategy and no payload;   *)
(* the state of the strategy is that of Part I.                            *)
(***************************************************************************)
\* MutexLock::new: Err when the pool has no block for the strategy,
\* otherwise the strategy is initialized in place by M::init (which is not
\* among the methods of the Mutex trait in the source and is taken to leave
\* a usable strategy).
MutexLockNew ==
    /\ UNCHANGED initVars
    /\ phase = "unborn"
    /\ fatal = "none"
    /\ \E blockOk \in BOOLEAN :
         IF blockOk
         THEN /\ newResult' = "Ok"
              /\ phase' = "live"
              /\ pool' = {"layout"}
         ELSE /\ newResult' = "Err"
              /\ phase' = "failed"
              /\ UNCHANGED pool
    /\ lastCall' = NoCall
    /\ UNCHANGED <<strategy, debugBuild, fatal, owner, sharedCount, queue,
                   savedIrql, handleIrql, payload, pc, irql, entryIrql, guard,
                   localv, cycles>>

\* UniqueLock::new(locker): locker.lock(), which forwards to the strategy's
\* lock(): the native acquire is entered whatever the level.  The return of
\* the native acquire (Acquire) is the return of Ok(UniqueLock).
UniqueLockNew(c) ==
    /\ UNCHANGED initVars
    /\ phase = "live"
    /\ fatal = "none"
    /\ pc[c] = "idle"
    /\ cycles[c] < MaxCycles
    /\ MutexGuardNew(c)
    /\ UNCHANGED <<strategy, debugBuild, phase, newResult, pool, fatal, owner,
                   sharedCount, savedIrql, payload, guard, localv, cycles>>

\* Mutex::lock_shared: the default is unimplemented!("lock_shared"); only
\* ResourceMutex overrides it
lock_shared_implemented(s) == s = "ResourceMutex"

\* SharedLock::new(locker): locker.lock_shared(), which forwards to the
\* strategy's lock_shared(): ExAcquireResourceSharedLite(.., wait) returns
\* once no context owns the resource exclusively; the default panics.
SharedLockNew(c) ==
    /\ UNCHANGED initVars
    /\ phase = "live"
    /\ fatal = "none"
    /\ pc[c] = "idle"
    /\ IF lock_shared_implemented(strategy)
       THEN /\ owner = NoCtx
            /\ sharedCount' = [sharedCount EXCEPT ![c] = @ + 1]
            /\ pc' = [pc EXCEPT ![c] = "held"]
            /\ guard' = [guard EXCEPT ![c] = "shared"]
            /\ lastCall' = <<c, "SharedLock::new", "Ok">>
            /\ UNCHANGED fatal
       ELSE /\ fatal' = "panic"
            /\ lastCall' = <<c, "SharedLock::new", "Panic">>
            /\ UNCHANGED <<sharedCount, pc, guard>>
    /\ UNCHANGED <<strategy, debugBuild, phase, newResult, pool, owner, queue,
                   savedIrql, handleIrql, payload, irql, entryIrql, localv,
                   cycles>>

\* Drop for UniqueLock: inner.unlock(); Drop for SharedLock:
\* inner.unlock_shared()
WrapperDrop(c) ==
    /\ UNCHANGED initVars
    /\ fatal = "none"
    /\ pc[c] = "held"
    /\ IF guard[c] = "exclusive"
       THEN /\ MutexUnlock(c)
            /\ cycles' = [cycles EXCEPT ![c] = @ + 1]
       ELSE /\ MutexUnlockShared(c)
            /\ UNCHANGED cycles
    /\ pc' = [pc EXCEPT ![c] = "idle"]
    /\ guard' = [guard EXCEPT ![c] = "none"]
    /\ entryIrql' = [entryIrql EXCEPT ![c] = PASSIVE_LEVEL]
    /\ lastCall' = <<c, "wrapper_drop", guard[c]>>
    /\ UNCHANGED <<strategy, debugBuild, phase, newResult, pool, savedIrql,
                   handleIrql, payload, localv>>

\* ExAcquireFastMutex, KeAcquireGuardedMutex and
\* ExAcquireResourceExclusiveLite(.., wait) must be called at or below
\* APC_LEVEL: when the lock is taken they wait for it, and a wait at
\* DISPATCH_LEVEL or above stops the system.
WaitAtRaisedLevel(c) ==
    /\ UNCHANGED initVars
    /\ fatal = "none"
    /\ pc[c] = "acquiring"
    /\ strategy \in {"FastMutex", "GuardedMutex", "ResourceMutex"}
    /\ entryIrql[c] >= DISPATCH_LEVEL
    /\ ~NativeFree(c)
    /\ fatal' = "bugcheck"
    /\ lastCall' = <<c, "lock", "Bugcheck">>
    /\ UNCHANGED <<strategy, debugBuild, phase, newResult, pool, owner,
                   sharedCount, queue, savedIrql, handleIrql, payload, pc,
                   irql, entryIrql, guard, localv, cycles>>

StandaloneInit == Init /\ strategy \in MutexStrategies

StandaloneNext ==
    \/ MutexLockNew
    \/ \E c \in Ctx : UniqueLockNew(c)
    \/ \E c \in Ctx : Acquire(c)
    \/ \E c \in Ctx : WaitAtRaisedLevel(c)
    \/ \E c \in Ctx : SharedLockNew(c)
    \/ \E c \in Ctx : WrapperDrop(c)

SpecStandalone == StandaloneInit /\ [][StandaloneNext]_vars

(***************************************************************************)
(* Specification of StackQueueLocked<T, QueuedSpinMutex> under contention, *)
(* with fair scheduling.  A context inside KeAcquireInStackQueuedSpinLock  *)
(* spins on its own processor at DISPATCH_LEVEL or above, so it takes the  *)
(* lock once it is handed over; a holder is not preempted at that level    *)
(* and runs on to the end of the guard's scope.  Whether a context calls   *)
(* lock() at all is left open.                                             *)
(***************************************************************************)
QueuedInit == Init /\ strategy = "QueuedSpinMutex"

QueuedNext ==
    \/ LockedNew
    \/ \E c \in Ctx : LockCall(c)
    \/ \E c \in Ctx : Acquire(c)
    \/ \E c \in Ctx : ReadPayload(c)
    \/ \E c \in Ctx : WritePayload(c)
    \/ \E c \in Ctx : DropGuard(c)

SpecQueuedFair ==
    /\ QueuedInit
    /\ [][QueuedNext]_vars
    /\ \A c \in Ctx : /\ WF_vars(Acquire(c))
                      /\ WF_vars(ReadPayload(c))
                      /\ WF_vars(WritePayload(c))
                      /\ WF_vars(DropGuard(c))

(***************************************************************************)
(* Specification of Locked<T, M> on the strategies that wait, under fair   *)
(* scheduling: a native acquire that can complete does complete, and a     *)
(* context that holds a guard goes on to the end of the guard's scope.     *)
(* Whether a context calls lock() or lock_shared() at all is left open.    *)
(***************************************************************************)
WaitingStrategies ==
    {"FastMutex", "GuardedMutex", "ResourceMutex", "SpinMutex"}

LockFairInit == Init /\ strategy \in WaitingStrategies

SpecLockFair ==
    /\ LockFairInit
    /\ [][LockNext]_vars
    /\ \A c \in Ctx : /\ WF_vars(Acquire(c))
                      /\ WF_vars(ReadPayload(c))
                      /\ WF_vars(WritePayload(c))
                      /\ WF_vars(DropGuard(c))

(***************************************************************************)
(* Kernel objects built on the pool and on system threads: Timer::new and  *)
(* its drop, thread::spawn, the start routine of the new thread, and the   *)
(* JoinHandle.  Each call is one step; join() completes once the wait on   *)
(* the thread object is satisfied.                                         *)
(***************************************************************************)
\* everything but the timer and the thread
objFrame ==
    UNCHANGED <<lockVars, lzState, lzData, initRuns, olState, olValue,
                onceRuns, ipc, iop, ival, lastRet, lzDrops, olDrops, cell,
                lcState, lcRuns, dropLog, writer, cellRuns>>

threadVars ==
    <<spawnResult, thread, closure, fRuns, boxFrees, jhPhase, handle,
      exit_status, handleOpen, closes, joinRet>>

\* Timer::new: the KTIMER block is allocated, the timer initialized, then
\* the Dpc is built inside the struct expression; `?` returns its error
TimerNew ==
    /\ Running
    /\ timer = "unborn"
    /\ \E layoutOk \in BOOLEAN, dpcOk \in BOOLEAN :
         IF ~layoutOk
         THEN /\ timer' = "failed"
              /\ UNCHANGED timerPool
         ELSE IF ~dpcOk
         THEN /\ timer' = "failed"
              /\ timerPool' = timerPool \cup {"ktimer"}
         ELSE /\ timer' = "live"
              /\ timerPool' = timerPool \cup {"ktimer"}
    /\ UNCHANGED threadVars
    /\ objFrame

\* Drop for Timer: ExFreePoolWithTag(self.inner)
TimerDrop ==
    /\ Running
    /\ timer = "live"
    /\ timer' = "dropped"
    /\ timerPool' = timerPool \ {"ktimer"}
    /\ UNCHANGED threadVars
    /\ objFrame

STATUS_SUCCESS == 0
STATUS_INSUFFICIENT_RESOURCES == -1073741670

\* the results of PsCreateSystemThread that are told apart
CreateStatuses == {STATUS_SUCCESS, STATUS_INSUFFICIENT_RESOURCES}

\* a test that takes every status for a success
nt_success_always(status) == TRUE

\* nt_success(status)
nt_success(status) == status >= 0

\* thread::spawn(f): the closure is boxed and handed to
\* PsCreateSystemThread as the context of start_routine_stub; on failure
\* the box is rebuilt and dropped and the error returned
Spawn ==
    /\ Running
    /\ spawnResult = "none"
    /\ \E status \in CreateStatuses :
         \* PsCreateSystemThread starts the thread and writes its handle
         /\ thread' = IF status = STATUS_SUCCESS THEN "created" ELSE thread
         /\ handleOpen' = (status = STATUS_SUCCESS)
         /\ IF nt_success(status)
            THEN /\ spawnResult' = "Ok"
                 /\ closure' = "boxed"
                 /\ handle' = IF status = STATUS_SUCCESS
                              THEN ThreadHandle ELSE NullHandle
                 /\ exit_status' = "None"
                 /\ jhPhase' = "live"
                 /\ UNCHANGED boxFrees
            ELSE /\ spawnResult' = "Err"
                 /\ closure' = "freed_by_spawn"
                 /\ boxFrees' = boxFrees + 1
                 /\ UNCHANGED <<handle, exit_status, jhPhase>>
    /\ UNCHANGED <<fRuns, closes, joinRet, timer, timerPool>>
    /\ objFrame

\* start_routine_stub in the new thread: Box::from_raw(context), (*ctx)(),
\* the box is freed and the thread ends when the routine returns
StartRoutineStub ==
    /\ Running
    /\ thread = "created"
    /\ fRuns' = fRuns + 1
    /\ boxFrees' = boxFrees + 1
    /\ closure' = "freed_by_thread"
    /\ thread' = "exited"
    /\ UNCHANGED <<spawnResult, jhPhase, handle, exit_status, handleOpen,
                   closes, joinRet, timer, timerPool>>
    /\ objFrame

\* ZwClose(h): closes an open handle; fails on the null handle
ClosesAfterZwClose(h) == IF h = ThreadHandle THEN closes + 1 ELSE closes
OpenAfterZwClose(h) == IF h = ThreadHandle THEN FALSE ELSE handleOpen

\* JoinHandle::dettach: ZwClose(self.handle); self.handle = null
Dettach ==
    /\ Running
    /\ jhPhase = "live"
    /\ closes' = ClosesAfterZwClose(handle)
    /\ handleOpen' = OpenAfterZwClose(handle)
    /\ handle' = NullHandle
    /\ UNCHANGED <<spawnResult, thread, closure, fRuns, boxFrees, jhPhase,
                   exit_status, joinRet, timer, timerPool>>
    /\ objFrame

\* JoinHandle::join: ObReferenceObjectByHandle fails on the null handle;
\* else KeWaitForSingleObject returns once the thread has ended, and the
\* exit status is queried and kept
Join ==
    /\ Running
    /\ jhPhase = "live"
    /\ IF handle = NullHandle
       THEN /\ joinRet' = "Err"
            /\ UNCHANGED exit_status
       ELSE /\ thread = "exited"
            /\ \E queryOk \in BOOLEAN :
                 IF queryOk
                 THEN /\ exit_status' = "Some"
                      /\ joinRet' = "Ok"
                 ELSE /\ joinRet' = "Err"
                      /\ UNCHANGED exit_status
    /\ UNCHANGED <<spawnResult, thread, closure, fRuns, boxFrees, jhPhase,
                   handle, handleOpen, closes, timer, timerPool>>
    /\ objFrame

\* JoinHandle::is_running
is_running == exit_status = "None"

\* JoinHandle::joinable
joinable == handle # NullHandle /\ is_running

\* Drop for JoinHandle: dettach() when joinable()
JoinHandleDrop ==
    /\ Running
    /\ jhPhase = "live"
    /\ jhPhase' = "dropped"
    /\ IF joinable
       THEN /\ closes' = ClosesAfterZwClose(handle)
            /\ handleOpen' = OpenAfterZwClose(handle)
            /\ handle' = NullHandle
       ELSE UNCHANGED <<closes, handleOpen, handle>>
    /\ UNCHANGED <<spawnResult, thread, closure, fRuns, boxFrees,
                   exit_status, joinRet, timer, timerPool>>
    /\ objFrame

ObjectsNext ==
    \/ LockedNew
    \/ TimerNew
    \/ TimerDrop
    \/ Spawn
    \/ StartRoutineStub
    \/ Dettach
    \/ Join
    \/ JoinHandleDrop

SpecObjects == Init /\ [][ObjectsNext]_vars

(***************************************************************************)
(* Properties of Part I.                                                   *)
(***************************************************************************)
\* the strategies that provide mutual exclusion
ExclusiveStrategies ==
    {"FastMutex", "GuardedMutex", "ResourceMutex", "SpinMutex", "QueuedSpinMutex"}

AllFinished == \A c \in Ctx : pc[c] = "idle" /\ cycles[c] = MaxCycles

\* C1: for Fast, Guarded, Resource (exclusive), Spin and QueuedSpin, once
\* every one of the NumCtx contexts has completed its MaxCycles cycles of
\* lock / read / write back +1 / drop, the payload is MaxCycles * NumCtx.
C1_NoLostUpdate ==
    (strategy \in ExclusiveStrategies /\ AllFinished)
        => payload = MaxCycles * NumCtx

C1_Witness ==
    /\ strategy \in ExclusiveStrategies
    /\ AllFinished
    /\ payload = MaxCycles * NumCtx

C3_SharedExcludesExclusive ==
    strategy = "ResourceMutex"
        => ~ \E a \in Ctx, b \in Ctx :
               guard[a] = "shared" /\ guard[b] = "exclusive"

\* C7: Spin: a context that called lock() below DISPATCH_LEVEL runs at an
\* elevated level while it holds the guard, and dropping the guard puts it
\* back at the level it had when it called lock().
C7_SpinRestoresLevel ==
    [][\A c \in Ctx :
         (strategy = "SpinMutex" /\ guard[c] = "exclusive"
            /\ entryIrql[c] < DISPATCH_LEVEL)
         => /\ irql[c] >= DISPATCH_LEVEL
            /\ guard'[c] = "none" => irql'[c] = entryIrql[c]]_vars

\* C8: QueuedSpin: dropping the guard puts the context back at the level it
\* had immediately before lock(), whatever the other contexts do.
C8_QueuedSpinRestoresLevel ==
    [][\A c \in Ctx :
         (strategy = "QueuedSpinMutex" /\ guard[c] = "exclusive"
            /\ guard'[c] = "none")
         => irql'[c] = entryIrql[c]]_vars

\* C9: Locked::new / StackQueueLocked::new never panic: a failed allocation
\* comes back as an error value.
C9_NewNeverPanics == newResult # "Panic" /\ (phase = "failed" => fatal = "none")

\* the levels at which a strategy must not be acquired: above APC_LEVEL for
\* the strategies that may block, above DISPATCH_LEVEL for the queued
\* placeholder, none for the spin locks
RejectedLevel(s, level) ==
    \/ s \in {"EmptyMutex", "FastMutex", "GuardedMutex", "ResourceMutex"}
          /\ level > APC_LEVEL
    \/ s = "QueuedEmptyMutex" /\ level > DISPATCH_LEVEL

\* C10: a lock() or lock_shared() call made at a level the gate rejects
\* returns Err and changes nothing: no native acquire, no guard, no panic,
\* same lock state, payload and level.
C10_GateRejection ==
    [][\A c \in Ctx :
         (/\ pc[c] = "idle"
          /\ RejectedLevel(strategy, irql[c])
          /\ lastCall'[1] = c
          /\ lastCall'[2] \in {"lock", "lock_shared"})
         => /\ lastCall'[3] = "Err"
            /\ UNCHANGED <<fatal, owner, sharedCount, queue, savedIrql,
                           handleIrql, payload, pc, irql, guard>>]_vars

\* a lock() rejected above DISPATCH_LEVEL has just returned Err on a
\* StackQueueLocked container
C10_Witness ==
    /\ lastCall[1] \in Ctx
    /\ lastCall[2] = "lock"
    /\ lastCall[3] = "Err"
    /\ RejectedLevel(strategy, irql[lastCall[1]])
    /\ strategy = "QueuedEmptyMutex"

\* the strategies of Locked that are not shareable
NonShareable == {"EmptyMutex", "FastMutex", "GuardedMutex", "SpinMutex"}

\* C11: on a container whose strategy is not shareable, every lock_shared()
\* call ends in Err or in a panic, at every level and in both build modes;
\* it hands out no guard and performs no acquire (lock state, level and
\* payload are as before the call).
C11_LockSharedRejected ==
    [][\A c \in Ctx :
         (/\ strategy \in NonShareable
          /\ lastCall'[1] = c
          /\ lastCall'[2] = "lock_shared")
         => /\ lastCall'[3] \in {"Err", "Panic"}
            /\ (lastCall'[3] = "Panic") = (fatal' = "panic")
            /\ guard'[c] = "none"
            /\ UNCHANGED <<owner, sharedCount, queue, savedIrql, handleIrql,
                           payload, pc, irql, guard>>]_vars

\* in a release build, lock_shared() at a level the gate accepts has just
\* returned Err on a FastMutex container
C11_Witness ==
    /\ strategy = "FastMutex"
    /\ ~debugBuild
    /\ lastCall[1] \in Ctx
    /\ lastCall[2] = "lock_shared"
    /\ lastCall[3] = "Err"
    /\ irql[lastCall[1]] <= APC_LEVEL

\* C12: the payload changes only by a deref_mut through an exclusive guard,
\* and a deref_mut through a shared guard always panics and leaves the
\* payload as it was.
C12_MutableOnlyThroughExclusive ==
    [][/\ payload' # payload
          => \E c \in Ctx : /\ guard[c] = "exclusive"
                            /\ lastCall' = <<c, "deref_mut", "Ok">>
       /\ \A c \in Ctx :
            (/\ guard[c] = "shared"
             /\ lastCall'[1] = c
             /\ lastCall'[2] = "deref_mut")
            => /\ lastCall'[3] = "Panic"
               /\ fatal' = "panic"
               /\ payload' = payload]_vars

\* a context holding a shared guard has just asked for a mutable borrow
C12_Witness ==
    /\ lastCall[1] \in Ctx
    /\ lastCall[2] = "deref_mut"
    /\ lastCall[3] = "Panic"
    /\ guard[lastCall[1]] = "shared"
    /\ fatal = "panic"

\* C13: every live guard stands for one acquire of its own mode that the
\* strategy still holds for the guard's context, and no release is issued
\* without a matching acquire (the ERESOURCE stops the system on one).
C13_GuardStandsForOneAcquire ==
    /\ \A c \in Ctx :
         /\ (guard[c] = "exclusive" /\ strategy \in ExclusiveStrategies)
               => owner = c
         /\ guard[c] = "shared" => sharedCount[c] = 1
    /\ fatal # "bugcheck"

\* C14: no context reads the payload without a guard while another context
\* holds an exclusive guard on the container.
C14_GuardsOnlyAccessPath ==
    ~ \E c \in Ctx, d \in Ctx :
        /\ c # d
        /\ lastCall = <<c, "deref", "Ok">>
        /\ guard[c] = "none"
        /\ guard[d] = "exclusive"
        /\ strategy \in ExclusiveStrategies

(***************************************************************************)
(* Properties of Part II.                                                  *)
(***************************************************************************)
\* calls on the LazyLock, by the name they return under
LazyOps == {"force", "force_wait", "lazy_get"}
\* positions of a context that won the UNINIT -> INITIALIZING exchange
LazyWinnerPositions == {"lz_run", "lz_store", "lz_publish"}

\* C4: whatever the interleaving of the force() calls, the initializer
\* function runs at most once, at most one context is past the
\* UNINIT -> INITIALIZING exchange, and once a force() has returned the
\* function has run exactly once.
C4_InitializerRunsOnce ==
    /\ initRuns <= 1
    /\ Cardinality({c \in Ctx : ipc[c] \in LazyWinnerPositions}) <= 1
    /\ (lastRet[2] \in {"force", "force_wait"} /\ lastRet[3] = "ref")
           => initRuns = 1

\* the winner has run the function and a context that lost is waiting
C4_Witness ==
    /\ initRuns = 1
    /\ \E a \in Ctx, b \in Ctx :
         /\ a # b
         /\ ipc[a] = "lz_publish"
         /\ ipc[b] = "lz_wait"
         /\ iop[b] = "force"

\* C5: every force() returns the value of the one run of the initializer
\* function, on the fast path, as winner and after waiting.
C5_ForceSameValue ==
    (lastRet[2] = "force" /\ lastRet[3] = "ref")
        => lastRet[4] = Value(InitValue(1))

\* a force() has just returned while another context is still in the wait
\* loop it entered after losing the race or observing INITIALIZING
C5_Witness ==
    /\ lastRet[2] = "force"
    /\ lastRet[3] = "ref"
    /\ lastRet[4] = Value(InitValue(1))
    /\ \E d \in Ctx : d # lastRet[1] /\ ipc[d] = "lz_wait" /\ iop[d] = "force"

\* C15: a force() called while the state is INITIALIZED returns in that very
\* step with the stored value: it does not run the initializer function,
\* makes no compare-exchange and no write of the state, and does not enter
\* the wait loop.
C15_ForceFastPath ==
    [][\A c \in Ctx :
         (/\ lzState = INITIALIZED
          /\ ipc[c] = "idle"
          /\ \/ iop'[c] = "force"
             \/ lastRet'[1] = c /\ lastRet'[2] = "force")
         => /\ lastRet' = <<c, "force", "ref", lzData, "fast">>
            /\ ipc'[c] = "idle"
            /\ iop'[c] = "none"
            /\ UNCHANGED <<lzState, lzData, initRuns>>]_vars

\* a force() has just returned through the fast path, after the one run of
\* the function
C15_Witness ==
    /\ Len(lastRet) = 5
    /\ lastRet[2] = "force"
    /\ lastRet[5] = "fast"
    /\ lastRet[4] = Value(InitValue(1))
    /\ lzState = INITIALIZED
    /\ initRuns = 1

\* C16: used by one caller at a time, for the OnceCell and for the OnceLock:
\* set(v) on an empty cell returns Ok with v stored; get() returns the
\* stored value; set(v2) on a cell that holds a value returns Err(v2) and
\* leaves state and value as they are; a stored value never changes.
C16_SetGetRoundTrip ==
    [][/\ (cell = Nothing /\ lastRet'[2] = "cell_set")
          => /\ lastRet'[3] = "Ok"
             /\ cell' = Value(SetArg(lastRet'[1]))
       /\ (cell # Nothing /\ lastRet'[2] = "cell_set")
          => /\ lastRet'[3] = "Err"
             /\ lastRet'[4] = Value(SetArg(lastRet'[1]))
       /\ cell # Nothing => cell' = cell
       /\ lastRet'[2] = "cell_get"
          => /\ lastRet'[3] = IF cell = Nothing THEN "None" ELSE "Some"
             /\ lastRet'[4] = cell
       /\ \A c \in Ctx :
            (olState = UNINIT /\ ipc[c] = "idle" /\ ipc'[c] # "idle")
               => lastRet'[3] # "Err"
       /\ (lastRet'[2] = "set" /\ lastRet'[3] = "Ok")
          => /\ olState' = INITIALIZED
             /\ olValue' = Value(SetArg(lastRet'[1]))
       /\ (olState = INITIALIZED /\ lastRet'[2] = "set")
          => /\ lastRet'[3] = "Err"
             /\ lastRet'[4] = Value(SetArg(lastRet'[1]))
       /\ olState = INITIALIZED => UNCHANGED <<olState, olValue>>
       /\ lastRet'[2] = "once_get"
          => IF olState = INITIALIZED
             THEN lastRet'[3] = "Some" /\ lastRet'[4] = olValue
             ELSE lastRet'[3] = "None"]_vars

\* a second set on the OnceLock has just handed its value back, the value
\* of the first set still stored, and the OnceCell holds a value too
C16_Witness ==
    /\ lastRet[2] = "set"
    /\ lastRet[3] = "Err"
    /\ lastRet[4] = Value(SetArg(lastRet[1]))
    /\ olState = INITIALIZED
    /\ olValue[1] = "value"
    /\ olValue # lastRet[4]
    /\ cell[1] = "value"

\* C17: a set(v) call on the OnceLock returns Ok only when the value now
\* stored is its own v.
C17_SetOkMeansStored ==
    (lastRet[2] = "set" /\ lastRet[3] = "Ok")
        => olValue = Value(SetArg(lastRet[1]))

\* the states of an initializer
InitStates == {UNINIT, INITIALIZING, INITIALIZED}

\* C18: with no teardown and no take, the state of the LazyLock and of the
\* OnceLock is one of the three states, and every change of it is one step
\* forward: UNINIT to INITIALIZING or INITIALIZING to INITIALIZED.
C18_StateMovesForward ==
    [][/\ lzState' \in InitStates
       /\ olState' \in InitStates
       /\ lzState' # lzState => lzState' = lzState + 1
       /\ olState' # olState => olState' = olState + 1]_vars

\* the LazyLock has gone through both steps while a context that lost the
\* exchange on the OnceLock waits for its winner
C18_Witness ==
    /\ lzState = INITIALIZED
    /\ olState = INITIALIZING
    /\ \E c \in Ctx : ipc[c] = "ol_wait"

\* C19: once a teardown has destroyed the payload of an initializer, its
\* state is no longer INITIALIZED, and no call hands out the destroyed
\* payload.
C19_TeardownResetsState ==
    /\ lzData = Destroyed => lzState # INITIALIZED
    /\ olValue = Destroyed => olState # INITIALIZED
    /\ lastRet[3] \in {"ref", "Some"} => lastRet[4] # Destroyed

\* C20: over any sequence of teardown calls the destructor of the payload
\* of the LazyLock, and of the OnceLock, runs at most once.
C20_DestructorRunsOnce ==
    /\ lzDrops <= 1
    /\ olDrops <= 1

\* C6: the payload is in place whenever the state is INITIALIZED, and a
\* call that hands out the payload (force, force_wait, get, get_or_init,
\* wait) returns only in state INITIALIZED, with the stored payload.
C6_NoReferenceBeforeInitialized ==
    /\ lzState = INITIALIZED => lzData[1] = "value"
    /\ olState = INITIALIZED => olValue[1] = "value"
    /\ lastRet[3] \in {"ref", "Some"}
         => IF lastRet[2] \in LazyOps
            THEN lzState = INITIALIZED /\ lastRet[4] = lzData
            ELSE olState = INITIALIZED /\ lastRet[4] = olValue

\* a context that waited on the OnceLock has just been handed the payload
\* that another context stored
C6_Witness ==
    /\ lastRet[2] \in {"wait", "get_or_init"}
    /\ lastRet[3] \in {"ref", "Some"}
    /\ lastRet[4] # Value(InitFn(lastRet[1]))
    /\ olState = INITIALIZED

(***************************************************************************)
(* Properties of Part III.                                                 *)
(***************************************************************************)
\* C21: LazyCell::drop leaves the LazyCell Poisoned, from Uninit and from
\* Init; a Poisoned LazyCell stays Poisoned; on it force() panics at once
\* without running the function, get() returns None, and drop() panics.
C21_PoisonedAfterDrop ==
    [][/\ (lcState # Poisoned /\ lastRet'[2] = "lazycell_drop")
          => /\ lcState' = Poisoned
             /\ lastRet'[3] = "unit"
             /\ fatal' = "none"
       /\ lcState = Poisoned => lcState' = Poisoned /\ lcRuns' = lcRuns
       /\ (lcState = Poisoned /\ lastRet'[2] = "lazycell_force")
          => lastRet'[3] = "Panic" /\ fatal' = "panic"
       /\ (lcState = Poisoned /\ lastRet'[2] = "lazycell_get")
          => lastRet'[3] = "None" /\ fatal' = "none"
       /\ (lcState = Poisoned /\ lastRet'[2] = "lazycell_drop")
          => lastRet'[3] = "Panic" /\ fatal' = "panic"]_vars

\* a force() on a LazyCell that was torn down after its initialization has
\* just panicked
C21_Witness ==
    /\ lcState = Poisoned
    /\ lcRuns = 1
    /\ lastRet[2] = "lazycell_force"
    /\ lastRet[3] = "Panic"
    /\ fatal = "panic"

\* C22: the initializer function of a LazyCell runs at most once, and only
\* in a force() that finds the cell Uninit; that force() stores and returns
\* its value, every force() on an initialized cell returns the very same
\* value without running anything, and get() changes nothing.
C22_LazyCellInitOnce ==
    [][/\ lcRuns' <= 1
       /\ lcRuns' # lcRuns
          => lcState = HoldsFn /\ lastRet'[2] = "lazycell_force"
       /\ (lcState = HoldsFn /\ lastRet'[2] = "lazycell_force")
          => /\ lcRuns' = 1
             /\ lcState' = Value(InitValue(1))
             /\ lastRet'[3] = "ref"
             /\ lastRet'[4] = Value(InitValue(1))
       /\ (lcState[1] = "value" /\ lastRet'[2] = "lazycell_force")
          => /\ lastRet'[3] = "ref"
             /\ lastRet'[4] = Value(InitValue(1))
             /\ UNCHANGED <<lcState, lcRuns>>
       /\ lastRet'[2] = "lazycell_get" => UNCHANGED <<lcState, lcRuns>>]_vars

\* a force() has just returned the value of the one run
C22_Witness ==
    /\ lastRet[2] = "lazycell_force"
    /\ lastRet[3] = "ref"
    /\ lastRet[4] = Value(InitValue(1))
    /\ lcState = Value(InitValue(1))
    /\ lcRuns = 1

\* the whole state of the four lazy structures and of the calls in progress
ProbeData ==
    <<lzState, lzData, initRuns, olState, olValue, onceRuns, cell, lcState,
      lcRuns, ipc, iop, ival, fatal>>

\* C23: get() on LazyLock, OnceLock, LazyCell and OnceCell is a probe: it
\* returns Some with the stored payload exactly when the structure is
\* initialized and None otherwise, runs no initializer, changes neither the
\* state nor the payload of any structure, and is never made to wait (a
\* context that is in no call can always complete it in one step).
C23_GetIsPureProbe ==
    /\ [](\A c \in Ctx : (Running /\ ipc[c] = "idle")
              => /\ ENABLED LazyGet(c)
                 /\ ENABLED OnceGet(c)
                 /\ ENABLED LazyCellGet(c)
                 /\ ENABLED CellGet(c))
    /\ [][lastRet' # lastRet =>
            /\ lastRet'[2] \in {"lazy_get", "once_get", "lazycell_get",
                                "cell_get"}
               => /\ UNCHANGED ProbeData
                  /\ lastRet'[3] \in {"Some", "None"}
            /\ lastRet'[2] = "lazy_get"
               => /\ lastRet'[3] = "Some" <=> lzState = INITIALIZED
                  /\ lastRet'[3] = "Some" => lastRet'[4] = lzData
            /\ lastRet'[2] = "once_get"
               => /\ lastRet'[3] = "Some" <=> olState = INITIALIZED
                  /\ lastRet'[3] = "Some" => lastRet'[4] = olValue
            /\ lastRet'[2] = "lazycell_get"
               => /\ lastRet'[3] = "Some" <=> lcState[1] = "value"
                  /\ lastRet'[3] = "Some" => lastRet'[4] = lcState
            /\ lastRet'[2] = "cell_get"
               => /\ lastRet'[3] = "Some" <=> cell # Nothing
                  /\ lastRet'[3] = "Some" => lastRet'[4] = cell]_vars

\* get() on a LazyLock has returned None while another context is inside
\* the initializer, and get() on a filled OnceCell can return Some
C23_Witness ==
    /\ lastRet[2] = "lazy_get"
    /\ lastRet[3] = "None"
    /\ lzState = INITIALIZING
    /\ \E c \in Ctx : ipc[c] # "idle"
    /\ cell # Nothing

C25_PublishReleaseLoadAcquire ==
    /\ Releases(PublishOrdering)
    /\ (lastRet[3] \in {"ref", "Some"})
          => lastRet[4][1] = "value"

\* C26 as stated: a lock() call is refused exactly when the strategy is one
\* of the null, Fast, Guarded and Resource strategies and the caller's level
\* is above APC_LEVEL.
C26_GateAsStated ==
    [][\A c \in Ctx :
         (/\ pc[c] = "idle"
          /\ lastCall'[1] = c
          /\ lastCall'[2] = "lock"
          /\ lastCall'[3] \in {"Err", "entered"})
         => (lastCall'[3] = "Err"
               <=> /\ strategy \notin {"SpinMutex", "QueuedSpinMutex"}
                   /\ irql[c] > APC_LEVEL)]_vars

\* C26 as amended: the outcome of the gate is a function of the strategy and
\* the caller's level alone: lock() is refused exactly when the level is
\* above APC_LEVEL for EmptyMutex, FastMutex, GuardedMutex and
\* ResourceMutex, above DISPATCH_LEVEL for QueuedEmptyMutex, and never for
\* SpinMutex and QueuedSpinMutex; a refusal changes no state, and neither
\* outcome changes the level before the native acquire is entered.
C26_GateIsPureThreshold ==
    [][\A c \in Ctx :
         (/\ pc[c] = "idle"
          /\ lastCall'[1] = c
          /\ lastCall'[2] = "lock"
          /\ lastCall'[3] \in {"Err", "entered"})
         => /\ lastCall'[3] = "Err" <=> RejectedLevel(strategy, irql[c])
            /\ lastCall'[3] = "Err"
                  => UNCHANGED <<strategy, debugBuild, phase, pool, fatal,
                                 owner, sharedCount, queue, savedIrql,
                                 handleIrql, payload, pc, irql, entryIrql,
                                 guard, localv, cycles>>
            /\ lastCall'[3] = "entered" => entryIrql'[c] = irql[c]]_vars

\* lock() on the queued null strategy has passed the gate at DISPATCH_LEVEL
C26_Witness ==
    /\ strategy = "QueuedEmptyMutex"
    /\ lastCall[1] \in Ctx
    /\ lastCall[2] = "lock"
    /\ lastCall[3] = "entered"
    /\ entryIrql[lastCall[1]] = DISPATCH_LEVEL

\* C27: the drop of a container makes these calls, each once and in this
\* order: the payload's destructor; the strategy's destructor, which for
\* ResourceMutex deletes the resource and then frees the backend block, for
\* the other allocating strategies frees the backend block, and for the null
\* strategies does nothing; the release of the container's allocation.
\* Nothing of the container is left in the pool, and nothing is destroyed
\* before the drop.
C27_DropOrder ==
    /\ phase # "dropped" => dropLog = <<>>
    /\ phase = "dropped" =>
         /\ dropLog =
              CASE strategy = "ResourceMutex" ->
                     <<"drop_in_place(data)", "ExDeleteResourceLite",
                       "ExFreePoolWithTag(backend)",
                       "ExFreePoolWithTag(layout)">>
                [] strategy \in {"FastMutex", "GuardedMutex", "SpinMutex",
                                 "QueuedSpinMutex"} ->
                     <<"drop_in_place(data)", "ExFreePoolWithTag(backend)",
                       "ExFreePoolWithTag(layout)">>
                [] OTHER ->
                     <<"drop_in_place(data)", "ExFreePoolWithTag(layout)">>
         /\ \A i \in 1..Len(dropLog), j \in 1..Len(dropLog) :
              dropLog[i] = dropLog[j] => i = j
         /\ pool = {}

\* a container on ResourceMutex has been dropped after use
C27_Witness ==
    /\ phase = "dropped"
    /\ strategy = "ResourceMutex"
    /\ payload > 0
    /\ Len(dropLog) = 4

\* C28: a call of LazyLock::drop destroys one object, chosen by the state
\* it finds: in state UNINIT the initializer function and not the payload,
\* in state INITIALIZED the payload; in state INITIALIZING it panics and
\* destroys nothing.  It touches nothing else.
C28_TeardownByState ==
    [][lastRet'[2] = "lazy_drop" /\ lastRet' # lastRet =>
         /\ lzState = UNINIT
               => /\ lzData \in {HoldsFn, Destroyed}
                  /\ lzData' = Destroyed
                  /\ lzDrops' = lzDrops
                  /\ lastRet'[3] = "unit"
         /\ lzState = INITIALIZED
               => /\ lzData[1] \in {"value", "destroyed"}
                  /\ lzData' = Destroyed
                  /\ lzDrops' = lzDrops + 1
                  /\ lastRet'[3] = "unit"
         /\ lzState = INITIALIZING
               => /\ lastRet'[3] = "Panic"
                  /\ fatal' = "panic"
                  /\ UNCHANGED <<lzData, lzDrops>>
         /\ UNCHANGED <<lzState, initRuns, olState, olValue, onceRuns, olDrops,
                        ipc, iop, ival>>]_vars

\* LazyLock::drop has panicked in state INITIALIZING, while the function is
\* running in another context
C28_Witness ==
    /\ lastRet[2] = "lazy_drop"
    /\ lastRet[3] = "Panic"
    /\ lzState = INITIALIZING
    /\ lzData = MovedOut
    /\ fatal = "panic"

\* C29: UniqueLock::new and SharedLock::new return Ok for every strategy of
\* the MutexLock, with the lock held by the caller in the mode asked for:
\* neither call panics or stops the system, and a context that holds a
\* SharedLock holds a shared acquisition of the strategy.
C29_WrappersAlwaysOk ==
    /\ lastCall[2] = "lock" => lastCall[3] \in {"entered", "Ok"}
    /\ lastCall[2] = "SharedLock::new" => lastCall[3] = "Ok"
    /\ \A c \in Ctx : guard[c] = "shared" => sharedCount[c] = 1
    /\ fatal = "none"

\* C30: every entry point that acquires checks the gate first: no native
\* acquire is entered at a level the gate of the strategy rejects.
C30_GateOnEveryEntry ==
    \A c \in Ctx :
       pc[c] \in {"acquiring", "held"}
          => ~RejectedLevel(strategy, entryIrql[c])

\* C31: under fair scheduling every force() on the LazyLock returns: a
\* context that is inside force(), as the winner of the compare-exchange,
\* as its loser or as an observer of INITIALIZING, eventually is handed the
\* reference to the stored value.
C31_ForceReturns ==
    \A c \in Ctx :
       (iop[c] = "force" /\ ipc[c] # "idle")
          ~> (/\ ipc[c] = "idle"
              /\ lzState = INITIALIZED
              /\ lastRet[1] = c
              /\ lastRet[2] = "force"
              /\ lastRet[3] = "ref")

\* a force() spins in the wait loop while the function runs in another
\* context
C31_Witness ==
    \E c \in Ctx, d \in Ctx :
       /\ iop[c] = "force"
       /\ ipc[c] = "lz_wait"
       /\ ipc[d] = "lz_run"
       /\ lzState = INITIALIZING

\* C32: under fair scheduling, with every guard dropped in the end, a
\* lock() call on a FastMutex, GuardedMutex, ResourceMutex or SpinMutex
\* container that has passed the gate eventually returns its guard, whatever
\* lock() and lock_shared() guards the contexts take and drop meanwhile.
\* (A run ended by the panic of a misuse is not counted against the claim.)
C32_LockEventuallyReturns ==
    \A c \in Ctx :
       (pc[c] = "acquiring") ~> (guard[c] = "exclusive" \/ fatal = "panic")


C34_CellGetOrInitReturnsValue ==
    [][lastRet'[2] = "cell_get_or_init"
         => /\ lastRet'[3] = "Some"
            /\ lastRet'[4] = cell'
            /\ IF cell = Nothing
               THEN /\ cellRuns' = cellRuns + 1
                    /\ cell' = Value(InitFn(lastRet'[1]))
               ELSE /\ cellRuns' = cellRuns
                    /\ cell' = cell]_vars

C36_FailedNewLeaksNothing ==
    /\ phase = "failed" => pool = {}
    /\ timer = "failed" => timerPool = {}

\* C37: once the JoinHandle returned by spawn has been dropped, after any
\* calls of join() and dettach(), the thread handle has been closed exactly
\* once; it is never closed twice.
C37_HandleClosedOnce ==
    /\ closes <= 1
    /\ jhPhase = "dropped" => (closes = 1 /\ ~handleOpen)

\* C38: the closure is run and freed on one path only.  When the creation
\* of the thread succeeded, spawn returns Ok and frees nothing, and the new
\* thread runs f once and frees its block once; when it failed, spawn
\* returns Err, no thread exists, f is never run and its block has been
\* freed once, by spawn.
C38_ClosureOwnedOnce ==
    /\ fRuns <= 1
    /\ boxFrees <= 1
    /\ spawnResult = "Ok"
       => /\ thread \in {"created", "exited"}
          /\ thread = "created"
             => fRuns = 0 /\ boxFrees = 0 /\ closure = "boxed"
          /\ thread = "exited"
             => fRuns = 1 /\ boxFrees = 1 /\ closure = "freed_by_thread"
    /\ spawnResult = "Err"
       => /\ thread = "none"
          /\ jhPhase = "none"
          /\ fRuns = 0
          /\ boxFrees = 1
          /\ closure = "freed_by_spawn"

\* the new thread has run the closure and freed it, and the JoinHandle has
\* joined it
C38_Witness ==
    /\ spawnResult = "Ok"
    /\ thread = "exited"
    /\ fRuns = 1
    /\ closure = "freed_by_thread"
    /\ joinRet = "Ok"
====
